---- MODULE Spec2Model ----
(***************************************************************************)
(* pod-doctor: the diagnostic engine.                                      *)
(*                                                                         *)
(*   SpecScan   - cmd scan: scanPods, the bounded worker pool              *)
(*   SpecScanFair - cmd scan: scanPods under a fair scheduler            *)
(*   SpecTimeout - cmd scan: scanPods while the deadline of ctx may pass   *)
(*   SpecStatus - analyzer: detectPodStatus over pod snapshots             *)
(*   SpecRec    - analyzer: generateRecommendations over issue lists       *)
(*   SpecDiag   - analyzer: PodAnalyzer.Diagnose, one call, step by step   *)
(*   SpecTwice  - analyzer: Diagnose called twice with the same answers    *)
(*   SpecConfig - analyzer: Diagnose over container configurations        *)
(*   SpecContainers - analyzer: Diagnose over container statuses          *)
(*   SpecEvents - analyzer: Diagnose over event lists                      *)
(*   SpecResources - analyzer: Diagnose over resource requirements         *)
(*   SpecProbes - analyzer: Diagnose over probe settings                   *)
(*   SpecMatch  - analyzer: the log patterns over one container's log text *)
(*   SpecLogs   - analyzer: LogAnalyzer.Analyze over the containers        *)
(*   SpecTruncate - analyzer: truncateLine                                 *)
(*   SpecFilter - scan: the unhealthy-only filter of runScan               *)
(*   SpecTui    - tui: the Model under key presses and load results        *)
(***************************************************************************)
EXTENDS Integers, Sequences, FiniteSets, TLC

VARIABLES
    \* ---- scanPods (cmd/scan.go) ----
    concurrency,    \* the --concurrency flag: capacity of sem
    nPods,          \* len(pods); pod references are 1..nPods
    coord,          \* the coordinator's position in scanPods
    idx,            \* number of pod references already handed to a goroutine
    wg,             \* sync.WaitGroup counter
    sem,            \* number of tokens in the sem channel
    mu,             \* sync.Mutex: 0 when free, else the goroutine holding it
    wpc,            \* position of the goroutine of each pod reference
    outcome,        \* what Diagnose returned for each pod reference
    diagnoses,      \* the shared result slice
    tmp,            \* per goroutine: the slice value read by append
    returned,       \* the slice scanPods returned
    ctxDone,        \* whether the deadline of runScan's ctx has passed
    ctxAtCall,      \* per goroutine: ctxDone when it entered Diagnose
    atExpiry,       \* the Diagnose calls in flight when the deadline passed
    \* ---- detectPodStatus ----
    pod,            \* the pod snapshot handed to the classifier
    status,         \* the label it returned
    classified,     \* whether detectPodStatus has run
    \* ---- generateRecommendations ----
    recIssues,      \* diagnosis.Issues
    recOut,         \* the returned recommendation list
    recDone,        \* whether generateRecommendations has run
    \* ---- PodAnalyzer.Diagnose ----
    dpc,            \* position of Diagnose
    ai,             \* index of the next analyzer of the loop
    world,          \* what the Signal Source holds for the pod
    diagnosis,      \* the Diagnosis being built
    calls,          \* the Signal Source calls made so far, in order
    invoked,        \* the analyzers run so far: name, error, issues
    now,            \* the wall clock, in seconds
    run,            \* 1 during the first Diagnose call, 2 during a repeat
    firstRun,       \* the Diagnosis the first call returned
    script,         \* the Signal Source calls of the first call, answered
    \* ---- LogAnalyzer ----
    logPod,         \* the pod whose containers' logs are analyzed
    logTexts,       \* per container: its current and previous log lines
    logFetch,       \* per container: which log fetch succeeded
    logResult,      \* what LogAnalyzer.Analyze returned
    logDone,        \* whether LogAnalyzer.Analyze has run
    tlLine,         \* the line handed to truncateLine
    tlOut,          \* what truncateLine returned
    tlDone,         \* whether truncateLine has run
    \* ---- runScan: the unhealthy-only filter ----
    onlyUnhealthy,  \* the --unhealthy flag
    scanResults,    \* what scanPods returned
    scanOutput,     \* the diagnoses handed to the output
    filterDone,     \* whether the filter step has run
    \* ---- the TUI Model (internal/tui) ----
    mView,          \* m.view
    mNamespaces,    \* m.namespaces
    mPods,          \* m.pods
    mFilteredPods,  \* m.filteredPods
    mSelectedNS,    \* m.selectedNS
    mSelectedPod,   \* m.selectedPod
    mDiagnosis,     \* m.diagnosis: the pod it is about, <<>> for nil
    mErr,           \* m.err != nil
    mLoading,       \* m.loading
    mCursor,        \* m.cursor
    mFilter,        \* m.filter
    mFiltering,     \* m.filtering
    mFilterInput,   \* m.filterInput.Value()
    mHeight,        \* m.height
    mCmds,          \* the commands that run and have not sent their message
    mLastKey,       \* the key of the last message, "" if it was no key
    mQuit           \* tea.Quit was returned

ctxVars    == <<ctxDone, ctxAtCall, atExpiry>>
scanVars   == <<concurrency, nPods, coord, idx, wg, sem, mu, wpc, outcome,
                diagnoses, tmp, returned, ctxVars>>
statusVars == <<pod, status, classified>>
recVars    == <<recIssues, recOut, recDone>>
twiceVars  == <<now, run, firstRun, script>>
diagVars   == <<dpc, ai, world, diagnosis, calls, invoked, twiceVars>>
logVars    == <<logPod, logTexts, logFetch, logResult, logDone, tlLine, tlOut,
                tlDone>>
filterVars == <<onlyUnhealthy, scanResults, scanOutput, filterDone>>
tuiVars    == <<mView, mNamespaces, mPods, mFilteredPods, mSelectedNS,
                mSelectedPod, mDiagnosis, mErr, mLoading, mCursor, mFilter,
                mFiltering, mFilterInput, mHeight, mCmds, mLastKey, mQuit>>
vars       == <<scanVars, statusVars, recVars, diagVars, logVars, filterVars,
                tuiVars>>

(***************************************************************************)
(* Bounds of the model.                                                    *)
(***************************************************************************)
MaxPods        == 3
MaxConcurrency == 2
MaxContainers  == 2
MaxIssues      == 3
MaxTimeoutPods == 2
MaxElapsed     == 2
MaxLogLines    == 3
MaxLogContainers == 2
MaxLineLen     == 250
MaxRuneBytes   == 2
MaxScanResults == 3
MaxFilterLen   == 2

Range(s) == {s[i] : i \in DOMAIN s}

Count(s, x) == Cardinality({i \in DOMAIN s : s[i] = x})

SeqsUpTo(S, n) == UNION {[1..k -> S] : k \in 0..n}

(***************************************************************************)
(* scanPods                                                                *)
(***************************************************************************)
PodRefs == 1..nPods

ScanIdle ==
    /\ concurrency = 0 /\ nPods = 0 /\ coord = "off" /\ idx = 0 /\ wg = 0
    /\ sem = 0 /\ mu = 0 /\ wpc = <<>> /\ outcome = <<>>
    /\ diagnoses = <<>> /\ tmp = <<>> /\ returned = <<>>
    /\ ctxDone = FALSE /\ ctxAtCall = <<>> /\ atExpiry = {}

\* var (diagnoses, mu, wg, sem = make(chan struct{}, concurrency)); the range
\* loop over pods is entered when there is a pod reference.
ScanInit ==
    /\ concurrency \in 0..MaxConcurrency
    /\ nPods \in 0..MaxPods
    /\ coord = IF nPods = 0 THEN "wait" ELSE "add"
    /\ idx = 0 /\ wg = 0 /\ sem = 0 /\ mu = 0
    /\ wpc = [p \in 1..nPods |-> "unborn"]
    /\ outcome = [p \in 1..nPods |-> "none"]
    /\ diagnoses = <<>>
    /\ tmp = [p \in 1..nPods |-> <<>>]
    /\ returned = <<>>
    /\ ctxDone = FALSE
    /\ ctxAtCall = [p \in 1..nPods |-> FALSE]
    /\ atExpiry = {}

\* A send on a channel of capacity cap that holds n elements proceeds when the
\* buffer has room; no goroutine is ever blocked receiving from sem (the only
\* receive is the deferred release of a goroutine that already holds a token),
\* so a send never completes by rendezvous.
SemCanSendNoLimit(n, cap) == TRUE

SemCanSend(n, cap) == n < cap

\* mu.Lock() proceeds only when the mutex is free.
MutexFreeAlways(m) == TRUE

MutexFree(m) == m = 0

\* wg.Wait() returns when the counter is zero.
WaitReturnsEarly(n) == TRUE

WaitReturnsOrTimeout(n) == n = 0 \/ ctxDone

WaitReturns(n) == n = 0

\* if err != nil { return }: a failed diagnosis skips the append.
AfterDiagnoseKeepFailed(res) == "lock"

AfterDiagnose(res) == IF res = "err" THEN "release" ELSE "lock"

\* What Diagnose(ctx, ...) can return: its first step is GetPod(ctx, ...),
\* which fails when the deadline of ctx has already passed, and then
\* Diagnose returns the error.  A call entered before the deadline succeeds
\* or fails.
DiagnoseResultsCtxIgnored(doneAtCall) == {"ok", "err"}

DiagnoseResults(doneAtCall) == IF doneAtCall THEN {"err"} ELSE {"ok", "err"}

\* wg.Add(1)
CoordAdd ==
    /\ coord = "add"
    /\ wg' = wg + 1
    /\ coord' = "acquire"
    /\ UNCHANGED <<concurrency, nPods, idx, sem, mu, wpc, outcome, diagnoses,
                   tmp, returned,
                   ctxVars>>

\* sem <- struct{}{}
CoordAcquire ==
    /\ coord = "acquire"
    /\ SemCanSend(sem, concurrency)
    /\ sem' = sem + 1
    /\ coord' = "go"
    /\ UNCHANGED <<concurrency, nPods, idx, wg, mu, wpc, outcome, diagnoses,
                   tmp, returned,
                   ctxVars>>

\* go func(p podRef) {...}(pod), then the next iteration or wg.Wait()
CoordGo ==
    /\ coord = "go"
    /\ wpc' = [wpc EXCEPT ![idx + 1] = "start"]
    /\ idx' = idx + 1
    /\ coord' = IF idx + 1 < nPods THEN "add" ELSE "wait"
    /\ UNCHANGED <<concurrency, nPods, wg, sem, mu, outcome, diagnoses, tmp,
                   returned,
                   ctxVars>>

\* wg.Wait(); return diagnoses
CoordWait ==
    /\ coord = "wait"
    /\ WaitReturns(wg)
    /\ returned' = diagnoses
    /\ coord' = "returned"
    /\ UNCHANGED <<concurrency, nPods, idx, wg, sem, mu, wpc, outcome,
                   diagnoses, tmp,
                   ctxVars>>

\* podAnalyzer.Diagnose(ctx, p.namespace, p.name) is entered with the ctx of
\* runScan, whose deadline has passed or not
WorkerCallDiagnose(p) ==
    /\ wpc[p] = "start"
    /\ wpc' = [wpc EXCEPT ![p] = "diagnose"]
    /\ ctxAtCall' = [ctxAtCall EXCEPT ![p] = ctxDone]
    /\ UNCHANGED <<concurrency, nPods, coord, idx, wg, sem, mu, outcome,
                   diagnoses, tmp, returned,
                   ctxDone, atExpiry>>

\* Diagnose returns a diagnosis or an error
WorkerDiagnoseReturn(p) ==
    /\ wpc[p] = "diagnose"
    /\ \E res \in DiagnoseResults(ctxAtCall[p]) :
          /\ outcome' = [outcome EXCEPT ![p] = res]
          /\ wpc' = [wpc EXCEPT ![p] = AfterDiagnose(res)]
    /\ UNCHANGED <<concurrency, nPods, coord, idx, wg, sem, mu, diagnoses,
                   tmp, returned,
                   ctxVars>>

\* mu.Lock()
WorkerLock(p) ==
    /\ wpc[p] = "lock"
    /\ MutexFree(mu)
    /\ mu' = p
    /\ wpc' = [wpc EXCEPT ![p] = "read"]
    /\ UNCHANGED <<concurrency, nPods, coord, idx, wg, sem, outcome,
                   diagnoses, tmp, returned,
                   ctxVars>>

\* append(diagnoses, diagnosis): the slice is read ...
WorkerAppendRead(p) ==
    /\ wpc[p] = "read"
    /\ tmp' = [tmp EXCEPT ![p] = diagnoses]
    /\ wpc' = [wpc EXCEPT ![p] = "write"]
    /\ UNCHANGED <<concurrency, nPods, coord, idx, wg, sem, mu, outcome,
                   diagnoses, returned,
                   ctxVars>>

\* ... and diagnoses = <the extended slice> is stored
WorkerAppendWrite(p) ==
    /\ wpc[p] = "write"
    /\ diagnoses' = Append(tmp[p], p)
    /\ wpc' = [wpc EXCEPT ![p] = "unlock"]
    /\ UNCHANGED <<concurrency, nPods, coord, idx, wg, sem, mu, outcome, tmp,
                   returned,
                   ctxVars>>

\* mu.Unlock()
WorkerUnlock(p) ==
    /\ wpc[p] = "unlock"
    /\ mu' = 0
    /\ wpc' = [wpc EXCEPT ![p] = "release"]
    /\ UNCHANGED <<concurrency, nPods, coord, idx, wg, sem, outcome,
                   diagnoses, tmp, returned,
                   ctxVars>>

\* <-sem: one element leaves the channel
SemAfterReceiveKept(n) == n

SemAfterReceive(n) == n - 1

\* defer func() { <-sem }(): registered last, so it runs first
WorkerRelease(p) ==
    /\ wpc[p] = "release"
    /\ sem' = SemAfterReceive(sem)
    /\ wpc' = [wpc EXCEPT ![p] = "wgdone"]
    /\ UNCHANGED <<concurrency, nPods, coord, idx, wg, mu, outcome, diagnoses,
                   tmp, returned,
                   ctxVars>>

\* defer wg.Done()
WorkerDone(p) ==
    /\ wpc[p] = "wgdone"
    /\ wg' = wg - 1
    /\ wpc' = [wpc EXCEPT ![p] = "exit"]
    /\ UNCHANGED <<concurrency, nPods, coord, idx, sem, mu, outcome,
                   diagnoses, tmp, returned,
                   ctxVars>>

\* The 2-minute deadline of the ctx of runScan passes while scanPods runs.
CtxExpire ==
    /\ coord # "returned"
    /\ ~ctxDone
    /\ ctxDone' = TRUE
    /\ atExpiry' = {p \in PodRefs : wpc[p] = "diagnose"}
    /\ UNCHANGED <<concurrency, nPods, coord, idx, wg, sem, mu, wpc, outcome,
                   diagnoses, tmp, returned, ctxAtCall>>

\* scanPods under a deadline that may pass at any moment of the scan.
TimeoutInit ==
    /\ concurrency \in 0..MaxConcurrency
    /\ nPods \in 0..MaxTimeoutPods
    /\ coord = IF nPods = 0 THEN "wait" ELSE "add"
    /\ idx = 0 /\ wg = 0 /\ sem = 0 /\ mu = 0
    /\ wpc = [p \in 1..nPods |-> "unborn"]
    /\ outcome = [p \in 1..nPods |-> "none"]
    /\ diagnoses = <<>>
    /\ tmp = [p \in 1..nPods |-> <<>>]
    /\ returned = <<>>
    /\ ctxDone = FALSE
    /\ ctxAtCall = [p \in 1..nPods |-> FALSE]
    /\ atExpiry = {}

(***************************************************************************)
(* Pod snapshots (corev1.Pod, the fields the engine reads)                 *)
(***************************************************************************)
\* corev1.ContainerState: at most one of Waiting, Running, Terminated is set.
NoState == [Kind |-> "none", Reason |-> "", ExitCode |-> 0]

RunningState == [Kind |-> "running", Reason |-> "", ExitCode |-> 0]

WaitingState(reason) == [Kind |-> "waiting", Reason |-> reason, ExitCode |-> 0]

TerminatedState(reason, code) ==
    [Kind |-> "terminated", Reason |-> reason, ExitCode |-> code]

\* corev1.ContainerStatus
ContainerStatus(name, state, last, ready, restarts) ==
    [Name |-> name, State |-> state, LastTerminationState |-> last,
     Ready |-> ready, RestartCount |-> restarts]

\* corev1.PodCondition
PodCondition(type, st, reason) == [Type |-> type, Status |-> st, Reason |-> reason]

\* corev1.Probe; Set is FALSE for a nil probe.
NoProbe ==
    [Set |-> FALSE, InitialDelaySeconds |-> 0, PeriodSeconds |-> 0,
     FailureThreshold |-> 0, TimeoutSeconds |-> 0]

Probe(delay, period, threshold, timeout) ==
    [Set |-> TRUE, InitialDelaySeconds |-> delay, PeriodSeconds |-> period,
     FailureThreshold |-> threshold, TimeoutSeconds |-> timeout]

\* corev1.ResourceRequirements: Limits and Requests map a resource name to a
\* quantity (cpu in millicores, memory in Mi).
Resources(limits, requests) == [Limits |-> limits, Requests |-> requests]

NoResources == Resources(<<>>, <<>>)

\* corev1.Container
Container(name, resources, liveness, readiness, startup) ==
    [Name |-> name, Resources |-> resources, LivenessProbe |-> liveness,
     ReadinessProbe |-> readiness, StartupProbe |-> startup]

\* corev1.Pod
Pod(deleting, phase, reason, node, conditions, css, initCss, containers, initContainers) ==
    [CreationTimestamp |-> 0,
     DeletionTimestamp |-> deleting, Phase |-> phase, Reason |-> reason,
     NodeName |-> node, Conditions |-> conditions,
     ContainerStatuses |-> css, InitContainerStatuses |-> initCss,
     Containers |-> containers, InitContainers |-> initContainers]

\* The pod with metadata.creationTimestamp t, in seconds; 0 is the zero time.
CreatedAt(p, t) == [p EXCEPT !.CreationTimestamp = t]

\* domain.EventInfo
EventInfo(type, reason, message, count) ==
    [Type |-> type, Reason |-> reason, Message |-> message, Count |-> count]

(***************************************************************************)
(* detectPodStatus                                                         *)
(***************************************************************************)
StatusLabels ==
    {"Healthy", "CrashLoopBackOff", "ImagePullBackOff", "Pending", "OOMKilled",
     "Evicted", "Error", "Terminating", "Unknown", "NotReady", "Initializing",
     "CreateContainerError", "CreateContainerConfigError"}

\* The switch on cs.State.Waiting.Reason; "" when no case matches.
WaitingLabel(reason) ==
    CASE reason = "CrashLoopBackOff" -> "CrashLoopBackOff"
      [] reason \in {"ImagePullBackOff", "ErrImagePull"} -> "ImagePullBackOff"
      [] reason = "CreateContainerError" -> "CreateContainerError"
      [] reason = "CreateContainerConfigError" -> "CreateContainerConfigError"
      [] OTHER -> ""

\* A variant that looks at the last termination before the waiting state.
ContainerVerdictOOMFirst(cs) ==
    IF cs.LastTerminationState.Kind = "terminated"
       /\ cs.LastTerminationState.Reason = "OOMKilled"
    THEN "OOMKilled"
    ELSE IF cs.State.Kind = "waiting" THEN WaitingLabel(cs.State.Reason) ELSE ""

\* One iteration of the loop over pod.Status.ContainerStatuses: the label the
\* iteration returns, or "" when it falls through to the next container.
ContainerVerdict(cs) ==
    IF cs.State.Kind = "waiting" /\ WaitingLabel(cs.State.Reason) # ""
    THEN WaitingLabel(cs.State.Reason)
    ELSE IF cs.LastTerminationState.Kind = "terminated"
            /\ cs.LastTerminationState.Reason = "OOMKilled"
         THEN "OOMKilled"
         ELSE ""

\* The loop: the verdict of the first container, in slice order, that has one.
RECURSIVE FirstVerdict(_, _)
FirstVerdict(css, i) ==
    IF i > Len(css) THEN ""
    ELSE IF ContainerVerdict(css[i]) # "" THEN ContainerVerdict(css[i])
    ELSE FirstVerdict(css, i + 1)

\* A variant of the switch that ignores pod.Status.Reason.
PhaseLabelAnyReason(p) ==
    CASE p.Phase = "Pending" -> "Pending"
      [] p.Phase = "Failed" -> "Evicted"
      [] p.Phase = "Running" ->
            IF \E i \in DOMAIN p.ContainerStatuses : ~p.ContainerStatuses[i].Ready
            THEN "NotReady" ELSE "Healthy"
      [] p.Phase = "Succeeded" -> "Healthy"
      [] OTHER -> "Unknown"

\* The switch on pod.Status.Phase.
PhaseLabel(p) ==
    CASE p.Phase = "Pending" -> "Pending"
      [] p.Phase = "Failed" -> IF p.Reason = "Evicted" THEN "Evicted" ELSE "Error"
      [] p.Phase = "Running" ->
            IF \E i \in DOMAIN p.ContainerStatuses : ~p.ContainerStatuses[i].Ready
            THEN "NotReady" ELSE "Healthy"
      [] p.Phase = "Succeeded" -> "Healthy"
      [] OTHER -> "Unknown"

\* A variant that checks the deletion timestamp after the container statuses.
detectPodStatusContainersFirst(p) ==
    IF FirstVerdict(p.ContainerStatuses, 1) # ""
    THEN FirstVerdict(p.ContainerStatuses, 1)
    ELSE IF p.DeletionTimestamp THEN "Terminating" ELSE PhaseLabel(p)

detectPodStatus(p) ==
    IF p.DeletionTimestamp THEN "Terminating"
    ELSE IF FirstVerdict(p.ContainerStatuses, 1) # ""
         THEN FirstVerdict(p.ContainerStatuses, 1)
         ELSE PhaseLabel(p)

\* The pod snapshots the classifier is run on.
CriticalWaitingReasons ==
    {"CrashLoopBackOff", "ImagePullBackOff", "ErrImagePull",
     "CreateContainerError", "CreateContainerConfigError"}

StatusStates ==
    {<<RunningState, TRUE>>, <<RunningState, FALSE>>}
    \cup {<<WaitingState(r), FALSE>> :
             r \in CriticalWaitingReasons \cup {"ContainerCreating"}}

StatusLastStates ==
    {NoState, TerminatedState("OOMKilled", 137), TerminatedState("Error", 1)}

StatusContainers ==
    {ContainerStatus("c", sr[1], last, sr[2], 0) :
        sr \in StatusStates, last \in StatusLastStates}

StatusPhases ==
    {<<"Pending", "">>, <<"Running", "">>, <<"Succeeded", "">>,
     <<"Failed", "">>, <<"Failed", "Evicted">>, <<"Unknown", "">>}

StatusPods ==
    {Pod(del, pr[1], pr[2], "node-1", <<>>, css, <<>>, <<>>, <<>>) :
        del \in BOOLEAN, pr \in StatusPhases,
        css \in SeqsUpTo(StatusContainers, MaxContainers)}

StatusInit ==
    /\ pod \in StatusPods
    /\ status = ""
    /\ classified = FALSE

\* diagnosis.Status = detectPodStatus(pod)
Classify ==
    /\ ~classified
    /\ status' = detectPodStatus(pod)
    /\ classified' = TRUE
    /\ UNCHANGED pod

(***************************************************************************)
(* Issues and recommendations (domain.Issue, domain.Recommendation)        *)
(***************************************************************************)
\* A title is the sequence of the pieces fmt.Sprintf joins: the literal text
\* of the format and the values of its verbs, in order; a title that is a
\* plain string is a single piece.
Issue(severity, category, title, details) ==
    [Severity |-> severity, Category |-> category, Title |-> title,
     Details |-> details]

Recommendation(priority, title) == [Priority |-> priority, Title |-> title]

\* Substring facts about the strings of the model: <<s, sub>> is listed when
\* sub occurs in s and differs from it.  Listed are the literal pieces of
\* titles that hold a keyword the engine looks for, and the event reasons and
\* messages that hold a keyword the analyzers look for.
Substrings ==
    {<<"No resource limits for ", "No resource limits">>,
     <<"BestEffort QoS for ", "BestEffort QoS">>,
     <<" probe failed", "probe failed">>,
     <<"No health probes for ", "No health probes">>,
     <<" running but not ready", "running but not ready">>,
     <<"FailedScheduling", "Scheduling">>,
     <<"FailedMount", "Mount">>,
     <<"FailedAttachVolume", "Volume">>,
     <<"ProbeWarning", "Probe">>,
     <<"Pulled", "Pull">>,
     <<"ErrImagePull", "Pull">>,
     <<"ImagePullBackOff", "Pull">>,
     <<"OOMKilling", "OOM">>,
     <<"Liveness probe failed: HTTP probe failed with statuscode: 503", "Liveness">>,
     <<"Readiness probe failed: connection refused", "Readiness">>,
     <<"Startup probe failed: context deadline exceeded", "Startup">>}

\* strings.Contains(issue.Title, keyword)
TitleContains(title, keyword) ==
    \E i \in DOMAIN title :
        title[i] = keyword \/ <<title[i], keyword>> \in Substrings

\* issue.Title == text
TitleIs(title, text) == title = <<text>>

containsReason(issue, reason) ==
    \/ "reason" \in DOMAIN issue.Details /\ issue.Details["reason"] = reason
    \/ TitleIs(issue.Title, reason)

\* if cond { recs = append(recs, r...) }
When(cond, rs) == IF cond THEN rs ELSE <<>>

getRecommendationsForIssue(issue) ==
    CASE issue.Category = "container" ->
            When(TitleIs(issue.Title, "CrashLoopBackOff")
                    \/ containsReason(issue, "CrashLoopBackOff"),
                 <<Recommendation(1, "Check container logs")>>)
            \o When(containsReason(issue, "ImagePullBackOff")
                    \/ containsReason(issue, "ErrImagePull"),
                 <<Recommendation(1, "Verify image exists"),
                   Recommendation(2, "Check image pull secrets")>>)
      [] issue.Category = "resources" ->
            When(containsReason(issue, "OOMKilled"),
                 <<Recommendation(1, "Increase memory limit")>>)
            \o When(TitleContains(issue.Title, "No resource limits"),
                 <<Recommendation(2, "Add resource limits")>>)
            \o When(TitleContains(issue.Title, "BestEffort QoS"),
                 <<Recommendation(2, "Configure resource requests and limits")>>)
      [] issue.Category = "probes" ->
            When(TitleContains(issue.Title, "probe failed"),
                 <<Recommendation(1, "Check probe endpoint")>>)
            \o When(TitleContains(issue.Title, "No health probes"),
                 <<Recommendation(3, "Add health probes")>>)
            \o When(TitleContains(issue.Title, "running but not ready"),
                 <<Recommendation(1, "Debug readiness probe")>>)
      [] issue.Category = "scheduling" ->
            <<Recommendation(1, "Check node resources"),
              Recommendation(2, "Review pod tolerations")>>
      [] issue.Category = "node" ->
            <<Recommendation(1, "Check node status")>>
      [] issue.Category = "logs" ->
            <<Recommendation(2, "Review full logs")>>
      [] OTHER -> <<>>

\* A variant that accepts a recommendation whatever was seen before.
NotSeenNoCheck(seen, title) == TRUE

\* !seenRecs[rec.Title]
NotSeen(seen, title) == title \notin seen

\* The accumulation loops: acc is <<recs, seenRecs>>.
RECURSIVE AcceptAll(_, _, _)
AcceptAll(acc, newRecs, k) ==
    IF k > Len(newRecs) THEN acc
    ELSE AcceptAll(IF NotSeen(acc[2], newRecs[k].Title)
                   THEN <<Append(acc[1], newRecs[k]),
                          acc[2] \cup {newRecs[k].Title}>>
                   ELSE acc,
                   newRecs, k + 1)

RECURSIVE Accumulate(_, _, _)
Accumulate(acc, issues, i) ==
    IF i > Len(issues) THEN acc
    ELSE Accumulate(AcceptAll(acc, getRecommendationsForIssue(issues[i]), 1),
                    issues, i + 1)

\* A comparison that orders by descending priority.
RecLessDescending(a, b) == a.Priority > b.Priority

\* The less function handed to sort.Slice.
RecLess(a, b) == a.Priority < b.Priority

Swap(s, i, j) == [s EXCEPT ![i] = s[j], ![j] = s[i]]

\* sort.Slice on a slice of at most 12 elements is an insertion sort
\* (insertionSortLessFunc): element i is moved down while it is less than its
\* predecessor.
RECURSIVE SiftDown(_, _)
SiftDown(s, j) ==
    IF j > 1 /\ RecLess(s[j], s[j - 1])
    THEN SiftDown(Swap(s, j, j - 1), j - 1)
    ELSE s

RECURSIVE InsertionSort(_, _)
InsertionSort(s, i) ==
    IF i > Len(s) THEN s ELSE InsertionSort(SiftDown(s, i), i + 1)

\* insertionSortLessFunc(data, a, b) on the positions a..b of s
RECURSIVE SiftDownTo(_, _, _)
SiftDownTo(s, j, a) ==
    IF j > a /\ RecLess(s[j], s[j - 1])
    THEN SiftDownTo(Swap(s, j, j - 1), j - 1, a)
    ELSE s

RECURSIVE InsertionSortRange(_, _, _, _)
InsertionSortRange(s, i, a, b) ==
    IF i > b THEN s ELSE InsertionSortRange(SiftDownTo(s, i, a), i + 1, a, b)

\* Slices longer than maxInsertion are sorted by pdqsort (Go 1.19 and later).
MaxInsertion == 12

\* order2: <<x, y, swaps>> with s[x] not after s[y]
Order2(s, x, y, swaps) ==
    IF RecLess(s[y], s[x]) THEN <<y, x, swaps + 1>> ELSE <<x, y, swaps>>

\* choosePivot for a slice of 8 to 49 elements at positions a..b: the median
\* of the elements at the three quarter points, and the number of swaps its
\* search made (no swaps: the slice looks increasing).
ChoosePivot(s, a, b) ==
    LET l == b - a + 1
        i == a + (l \div 4)
        j == a + (l \div 4) * 2
        k == a + (l \div 4) * 3
        o1 == Order2(s, i, j, 0)
        o2 == Order2(s, o1[2], k, o1[3])
        o3 == Order2(s, o1[1], o2[1], o2[3])
    IN  [Pivot |-> o3[2], Swaps |-> o3[3]]

\* partialInsertionSort on fewer than 50 elements moves nothing and reports
\* whether the positions a..b are already in order.
PartialInsertionSort(s, a, b) ==
    \A i \in (a + 1)..b : ~RecLess(s[i], s[i - 1])

\* for i <= j && less(data[i], data[a]) { i++ }
RECURSIVE ScanUp(_, _, _, _)
ScanUp(s, i, j, a) ==
    IF i <= j /\ RecLess(s[i], s[a]) THEN ScanUp(s, i + 1, j, a) ELSE i

\* for i <= j && !less(data[j], data[a]) { j-- }
RECURSIVE ScanDown(_, _, _, _)
ScanDown(s, i, j, a) ==
    IF i <= j /\ ~RecLess(s[j], s[a]) THEN ScanDown(s, i, j - 1, a) ELSE j

\* The loop of partition: <<slice, j>> when i has passed j.
RECURSIVE PartitionLoop(_, _, _, _)
PartitionLoop(s, i, j, a) ==
    LET i2 == ScanUp(s, i, j, a)
        j2 == ScanDown(s, i2, j, a)
    IN  IF i2 > j2 THEN <<s, j2>>
        ELSE PartitionLoop(Swap(s, i2, j2), i2 + 1, j2 - 1, a)

\* partition(data, a, b, pivot): the slice with the pivot at position Mid,
\* smaller elements before it and the others after it.
Partition(s, a, b, pivot) ==
    LET s1 == Swap(s, a, pivot)
        r == PartitionLoop(s1, a + 1, b, a)
    IN  [Slice |-> Swap(r[1], r[2], a), Mid |-> r[2]]

\* pdqsort on a slice of 13 elements (the engine has 13 titles, so recs is
\* never longer): one pivot step, after which both sides have at most
\* maxInsertion elements and are insertion-sorted.
Pdqsort(s) ==
    LET a == 1
        b == Len(s)
        c == ChoosePivot(s, a, b)
        p == Partition(s, a, b, c.Pivot)
        left == InsertionSortRange(p.Slice, a + 1, a, p.Mid - 1)
    IN  IF c.Swaps = 0 /\ PartialInsertionSort(s, a, b) THEN s
        ELSE InsertionSortRange(left, p.Mid + 2, p.Mid + 1, b)

\* sort.SliceStable in place of sort.Slice
SortSliceStable(s) == InsertionSort(s, 2)

SortSlice(s) ==
    IF Len(s) <= MaxInsertion THEN InsertionSort(s, 2) ELSE Pdqsort(s)

\* The list before the sort, in order of acceptance.
AcceptedRecommendations(issues) == Accumulate(<<<<>>, {}>>, issues, 1)[1]

generateRecommendations(issues) == SortSlice(AcceptedRecommendations(issues))

\* The issues the engine is run on: one of every kind its switch tells
\* apart, with and without a reason detail.
RecIssues ==
    {Issue("critical", "container", <<"Container ", "app", " in CrashLoopBackOff">>,
           [container |-> "app", reason |-> "CrashLoopBackOff"]),
     Issue("critical", "container", <<"CrashLoopBackOff">>, [count |-> <<"1">>]),
     Issue("critical", "container", <<"Cannot pull image for ", "app">>,
           [container |-> "app", reason |-> "ImagePullBackOff"]),
     Issue("critical", "container", <<"ErrImagePull">>, [count |-> <<"1">>]),
     Issue("critical", "resources", <<"Container ", "app", " was OOMKilled">>,
           [container |-> "app", reason |-> "OOMKilled"]),
     Issue("warning", "resources", <<"No resource limits for ", "app">>,
           [container |-> "app"]),
     Issue("warning", "resources", <<"BestEffort QoS for ", "app">>,
           [container |-> "app"]),
     Issue("warning", "resources", <<"No resource limits for ", "app">>,
           [container |-> "app", reason |-> "OOMKilled"]),
     Issue("critical", "probes", <<"Liveness", " probe failed">>,
           [probe_type |-> "Liveness"]),
     Issue("info", "probes", <<"No health probes for ", "app">>,
           [container |-> "app"]),
     Issue("warning", "probes", <<"Container ", "app", " running but not ready">>,
           [container |-> "app"]),
     Issue("critical", "scheduling", <<"Pod cannot be scheduled">>,
           [reason |-> "Unschedulable"]),
     Issue("critical", "node", <<"Node ", "node-1", " is not ready">>,
           [node |-> "node-1"]),
     Issue("critical", "logs", <<"[", "app", "] ", "Panic detected">>,
           [container |-> "app"]),
     Issue("warning", "events", <<"FailedSync">>, [count |-> <<"1">>])}

RecInit ==
    /\ recIssues \in SeqsUpTo(RecIssues, MaxIssues)
    /\ recOut = <<>>
    /\ recDone = FALSE

\* diagnosis.Recommendations = generateRecommendations(diagnosis)
Generate ==
    /\ ~recDone
    /\ recOut' = generateRecommendations(recIssues)
    /\ recDone' = TRUE
    /\ UNCHANGED recIssues

\* Eleven issues that together draw all 13 recommendations of the engine.
FullIssues ==
    <<Issue("critical", "container", <<"Container ", "app", " in CrashLoopBackOff">>,
            [container |-> "app", reason |-> "CrashLoopBackOff"]),
      Issue("critical", "container", <<"Cannot pull image for ", "app">>,
            [container |-> "app", reason |-> "ImagePullBackOff"]),
      Issue("critical", "resources", <<"Container ", "app", " was OOMKilled">>,
            [container |-> "app", reason |-> "OOMKilled"]),
      Issue("warning", "resources", <<"No resource limits for ", "app">>,
            [container |-> "app"]),
      Issue("warning", "resources", <<"BestEffort QoS for ", "app">>,
            [container |-> "app"]),
      Issue("critical", "probes", <<"Liveness", " probe failed">>,
            [probe_type |-> "Liveness"]),
      Issue("info", "probes", <<"No health probes for ", "app">>,
            [container |-> "app"]),
      Issue("warning", "probes", <<"Container ", "app", " running but not ready">>,
            [container |-> "app"]),
      Issue("critical", "scheduling", <<"Pod cannot be scheduled">>,
            [reason |-> "Unschedulable"]),
      Issue("critical", "node", <<"Node ", "node-1", " is not ready">>,
            [node |-> "node-1"]),
      Issue("critical", "logs", <<"[", "app", "] ", "Panic detected">>,
            [container |-> "app"])>>

\* The issue lists of the full runs: the eleven issues in their order, with
\* two of them exchanged, or with one of them left out.
RecFullInit ==
    /\ recIssues \in
          {Swap(FullIssues, i, j) : i, j \in DOMAIN FullIssues}
          \cup {SubSeq(FullIssues, 1, i - 1)
                   \o SubSeq(FullIssues, i + 1, Len(FullIssues)) :
                 i \in DOMAIN FullIssues}
    /\ recOut = <<>>
    /\ recDone = FALSE

(***************************************************************************)
(* The analyzers.  An analyzer's result is [Issues, Err, Calls]: the       *)
(* issues it returns, whether it returns an error, and the Signal Source   *)
(* calls it made.  Descriptions and free-text message details of issues    *)
(* are not modelled.                                                       *)
(***************************************************************************)
Result(issues, err, made) == [Issues |-> issues, Err |-> err, Calls |-> made]

\* One Signal Source call: the client method, its arguments, whether it
\* succeeded, and the component that made it.
Call(op, arg, ok, by) == [Op |-> op, Arg |-> arg, Ok |-> ok, By |-> by]

\* append(issues, f(x)...) for every x of a slice, in slice order
RECURSIVE FlatMap(_, _)
FlatMap(F(_), s) ==
    IF s = <<>> THEN <<>> ELSE F(Head(s)) \o FlatMap(F, Tail(s))

(***************************************************************************)
(* StatusAnalyzer                                                          *)
(***************************************************************************)
\* if cs.LastTerminationState.Terminated != nil: its own if, not an else
\* branch of the waiting check.
LastTerminationCheckedUnlessWaiting(cs) ==
    cs.State.Kind # "waiting" /\ cs.LastTerminationState.Kind = "terminated"

LastTerminationChecked(cs) == cs.LastTerminationState.Kind = "terminated"

StatusAnalyzer_analyzeContainerStatus(cs) ==
    LET name == cs.Name
        waiting ==
            IF cs.State.Kind # "waiting" THEN <<>>
            ELSE LET reason == cs.State.Reason IN
                 CASE reason = "CrashLoopBackOff" ->
                        <<Issue("critical", "container",
                                <<"Container ", name, " in CrashLoopBackOff">>,
                                [container |-> name, reason |-> reason,
                                 restart_count |-> ToString(cs.RestartCount)])>>
                   [] reason \in {"ImagePullBackOff", "ErrImagePull"} ->
                        <<Issue("critical", "container",
                                <<"Cannot pull image for ", name>>,
                                [container |-> name, reason |-> reason])>>
                   [] reason = "CreateContainerConfigError" ->
                        <<Issue("critical", "container",
                                <<"Config error for ", name>>,
                                [container |-> name, reason |-> reason])>>
                   [] reason = "CreateContainerError" ->
                        <<Issue("critical", "container",
                                <<"Cannot create container ", name>>,
                                [container |-> name, reason |-> reason])>>
                   [] OTHER ->
                        IF reason # "" /\ reason # "ContainerCreating"
                           /\ reason # "PodInitializing"
                        THEN <<Issue("warning", "container",
                                     <<"Container ", name, " waiting: ", reason>>,
                                     [container |-> name, reason |-> reason])>>
                        ELSE <<>>
        last == cs.LastTerminationState
        lastTermination ==
            IF ~LastTerminationChecked(cs) THEN <<>>
            ELSE IF last.Reason = "OOMKilled"
            THEN <<Issue("critical", "resources",
                         <<"Container ", name, " was OOMKilled">>,
                         [container |-> name, reason |-> "OOMKilled",
                          exit_code |-> ToString(last.ExitCode)])>>
            ELSE IF last.ExitCode # 0
            THEN <<Issue("warning", "container",
                         <<"Container ", name, " exited with code ",
                           ToString(last.ExitCode)>>,
                         [container |-> name, reason |-> last.Reason,
                          exit_code |-> ToString(last.ExitCode)])>>
            ELSE <<>>
        terminated ==
            IF cs.State.Kind = "terminated" /\ cs.State.ExitCode # 0
            THEN <<Issue("critical", "container",
                         <<"Container ", name, " terminated with exit code ",
                           ToString(cs.State.ExitCode)>>,
                         [container |-> name, reason |-> cs.State.Reason,
                          exit_code |-> ToString(cs.State.ExitCode)])>>
            ELSE <<>>
    IN  waiting \o lastTermination \o terminated

StatusAnalyzer_analyzeInitContainerStatus(cs) ==
    LET stuck ==
            IF cs.State.Kind = "waiting" /\ cs.State.Reason # ""
            THEN <<Issue("warning", "container",
                         <<"Init container ", cs.Name, " waiting: ", cs.State.Reason>>,
                         [container |-> cs.Name, type |-> "init",
                          reason |-> cs.State.Reason])>>
            ELSE <<>>
        failed ==
            IF cs.State.Kind = "terminated" /\ cs.State.ExitCode # 0
            THEN <<Issue("critical", "container",
                         <<"Init container ", cs.Name, " failed">>,
                         [container |-> cs.Name, type |-> "init",
                          exit_code |-> ToString(cs.State.ExitCode)])>>
            ELSE <<>>
    IN  stuck \o failed

StatusAnalyzer_analyzePodConditions(p) ==
    LET OfCondition(cond) ==
            CASE cond.Type = "PodScheduled" /\ cond.Status = "False" ->
                    <<Issue("critical", "scheduling", <<"Pod cannot be scheduled">>,
                            [reason |-> cond.Reason])>>
              [] cond.Type = "Ready" /\ cond.Status = "False"
                 /\ p.Phase = "Running" ->
                    <<Issue("warning", "container", <<"Pod is not ready">>,
                            [reason |-> cond.Reason])>>
              [] cond.Type = "ContainersReady" /\ cond.Status = "False"
                 /\ p.Phase = "Running" ->
                    <<Issue("warning", "container", <<"Containers not ready">>,
                            [reason |-> cond.Reason])>>
              [] OTHER -> <<>>
        evicted ==
            IF p.Phase = "Failed" /\ p.Reason = "Evicted"
            THEN <<Issue("critical", "resources", <<"Pod was evicted">>,
                         [reason |-> "Evicted"])>>
            ELSE <<>>
    IN  FlatMap(OfCondition, p.Conditions) \o evicted

\* if cs.RestartCount > 5
HighRestartCountFromFive(cs) == cs.RestartCount >= 5

HighRestartCount(cs) == cs.RestartCount > 5

StatusAnalyzer_Analyze(p) ==
    LET HighRestarts(cs) ==
            IF HighRestartCount(cs)
            THEN <<Issue("warning", "container",
                         <<"High restart count for ", cs.Name>>,
                         [container |-> cs.Name,
                          restart_count |-> ToString(cs.RestartCount)])>>
            ELSE <<>>
    IN  Result(FlatMap(StatusAnalyzer_analyzeContainerStatus, p.ContainerStatuses)
               \o FlatMap(StatusAnalyzer_analyzeInitContainerStatus,
                          p.InitContainerStatuses)
               \o StatusAnalyzer_analyzePodConditions(p)
               \o FlatMap(HighRestarts, p.ContainerStatuses),
               FALSE, <<>>)

(***************************************************************************)
(* Client.GetNodeHealth and NodeAnalyzer                                   *)
(***************************************************************************)
\* domain.NodeHealth from the node's condition list: each condition type
\* sets one flag, a type that is absent leaves its flag false.
RECURSIVE NodeHealthFrom(_, _)
NodeHealthFrom(health, conds) ==
    IF conds = <<>> THEN health
    ELSE LET c == Head(conds)
             isTrue == c.Status = "True"
         IN  NodeHealthFrom(
                CASE c.Type = "Ready" -> [health EXCEPT !.Ready = isTrue]
                  [] c.Type = "MemoryPressure" ->
                        [health EXCEPT !.MemoryPressure = isTrue]
                  [] c.Type = "DiskPressure" ->
                        [health EXCEPT !.DiskPressure = isTrue]
                  [] c.Type = "PIDPressure" ->
                        [health EXCEPT !.PIDPressure = isTrue]
                  [] c.Type = "NetworkUnavailable" ->
                        [health EXCEPT !.NetworkUnavail = isTrue]
                  [] OTHER -> health,
                Tail(conds))

GetNodeHealth(nodeName, conds) ==
    NodeHealthFrom([Name |-> nodeName, Ready |-> FALSE, MemoryPressure |-> FALSE,
                    DiskPressure |-> FALSE, PIDPressure |-> FALSE,
                    NetworkUnavail |-> FALSE], conds)

\* ok: whether the GetNodeHealth call succeeds; nodeConds: the conditions of
\* the node the Signal Source holds.
NodeAnalyzer_Analyze(p, nodeConds, ok) ==
    IF p.NodeName = "" THEN Result(<<>>, FALSE, <<>>)
    ELSE LET call == Call("GetNodeHealth", <<p.NodeName>>, ok, "node")
             h == GetNodeHealth(p.NodeName, nodeConds)
         IN  IF ~ok THEN Result(<<>>, TRUE, <<call>>)
             ELSE Result(
                When(~h.Ready,
                     <<Issue("critical", "node",
                             <<"Node ", h.Name, " is not ready">>,
                             [node |-> h.Name])>>)
                \o When(h.MemoryPressure,
                     <<Issue("warning", "node",
                             <<"Node ", h.Name, " has memory pressure">>,
                             [node |-> h.Name, condition |-> "MemoryPressure"])>>)
                \o When(h.DiskPressure,
                     <<Issue("warning", "node",
                             <<"Node ", h.Name, " has disk pressure">>,
                             [node |-> h.Name, condition |-> "DiskPressure"])>>)
                \o When(h.PIDPressure,
                     <<Issue("warning", "node",
                             <<"Node ", h.Name, " has PID pressure">>,
                             [node |-> h.Name, condition |-> "PIDPressure"])>>)
                \o When(h.NetworkUnavail,
                     <<Issue("critical", "node",
                             <<"Node ", h.Name, " network unavailable">>,
                             [node |-> h.Name, condition |-> "NetworkUnavailable"])>>),
                FALSE, <<call>>)

(***************************************************************************)
(* EventAnalyzer                                                           *)
(***************************************************************************)
\* strings.Contains(s, sub) for the reasons and messages of the model: s is
\* sub itself or is listed with it in Substrings.
StrContains(s, sub) == s = sub \/ <<s, sub>> \in Substrings

formatCount(count) ==
    IF count <= 1 THEN <<"1">> ELSE <<ToString(count), " times">>

\* Skip certain non-actionable events
NonActionableNever(reason) == FALSE

NonActionable(reason) ==
    reason \in {"Scheduled", "Pulled", "Created", "Started"}

\* The issue for a Warning event, or <<>> for the nil result.
EventAnalyzer_analyzeWarningEvent(event) ==
    LET severity ==
            IF event.Reason \in {"Failed", "FailedScheduling", "FailedMount",
                                 "FailedAttachVolume", "BackOff"}
            THEN "critical" ELSE "warning"
        category ==
            IF StrContains(event.Reason, "Scheduling") THEN "scheduling"
            ELSE IF StrContains(event.Reason, "Volume")
                    \/ StrContains(event.Reason, "Mount") THEN "storage"
            ELSE IF StrContains(event.Reason, "Probe")
                    \/ event.Reason = "Unhealthy" THEN "health"
            ELSE IF StrContains(event.Reason, "Pull") THEN "container"
            ELSE IF StrContains(event.Reason, "OOM") THEN "resources"
            ELSE "events"
    IN  IF NonActionable(event.Reason)
        THEN <<>>
        ELSE <<Issue(severity, category, <<event.Reason>>,
                     [count |-> formatCount(event.Count)])>>

\* ok: whether the GetPodEvents call succeeds.
EventAnalyzer_Analyze(p, events, ok) ==
    LET call == Call("GetPodEvents", <<>>, ok, "events")
        OfEvent(event) ==
            IF event.Type = "Warning"
            THEN EventAnalyzer_analyzeWarningEvent(event) ELSE <<>>
    IN  IF ~ok THEN Result(<<>>, TRUE, <<call>>)
        ELSE Result(FlatMap(OfEvent, events), FALSE, <<call>>)

(***************************************************************************)
(* ResourceAnalyzer                                                        *)
(***************************************************************************)
\* resource.MustParse("64Mi") and resource.MustParse("50m"), in Mi and in
\* millicores.
MinMemoryMi == 64
MinCPUMilli == 50

\* ResourceList.Cpu() / ResourceList.Memory(): the quantity of the entry, the
\* zero quantity when the list has no such entry.
Quantity(list, name) == IF name \in DOMAIN list THEN list[name] ELSE 0

\* isGuaranteedQoS without its check that the limits are set
isGuaranteedQoSUnsetIncluded(resources) ==
    /\ Quantity(resources.Limits, "cpu") = Quantity(resources.Requests, "cpu")
    /\ Quantity(resources.Limits, "memory") = Quantity(resources.Requests, "memory")

isGuaranteedQoS(resources) ==
    LET cpuLimit == Quantity(resources.Limits, "cpu")
        cpuRequest == Quantity(resources.Requests, "cpu")
        memLimit == Quantity(resources.Limits, "memory")
        memRequest == Quantity(resources.Requests, "memory")
    IN  IF cpuLimit = 0 \/ memLimit = 0 THEN FALSE
        ELSE cpuLimit = cpuRequest /\ memLimit = memRequest

\* isBurstableQoS looking at the requests alone
isBurstableQoSByRequests(resources) ==
    Cardinality(DOMAIN resources.Requests) > 0 /\ ~isGuaranteedQoS(resources)

isBurstableQoS(resources) ==
    LET hasRequest == Cardinality(DOMAIN resources.Requests) > 0
        hasLimit == Cardinality(DOMAIN resources.Limits) > 0
    IN  (hasRequest \/ hasLimit) /\ ~isGuaranteedQoS(resources)

ResourceAnalyzer_analyzeContainer(container) ==
    LET name == container.Name
        resources == container.Resources
        memLimit == Quantity(resources.Limits, "memory")
        memRequest == Quantity(resources.Requests, "memory")
        cpuLimit == Quantity(resources.Limits, "cpu")
        cpuRequest == Quantity(resources.Requests, "cpu")
    IN  When(Cardinality(DOMAIN resources.Limits) = 0,
             <<Issue("warning", "resources", <<"No resource limits for ", name>>,
                     [container |-> name])>>)
        \o When(Cardinality(DOMAIN resources.Requests) = 0,
             <<Issue("info", "resources", <<"No resource requests for ", name>>,
                     [container |-> name])>>)
        \o When(memLimit # 0 /\ memLimit < MinMemoryMi,
             <<Issue("warning", "resources", <<"Low memory limit for ", name>>,
                     [container |-> name, memory_limit |-> ToString(memLimit)])>>)
        \o When(memLimit # 0 /\ memRequest # 0 /\ memRequest > memLimit,
             <<Issue("warning", "resources", <<"Memory request > limit for ", name>>,
                     [container |-> name, memory_request |-> ToString(memRequest),
                      memory_limit |-> ToString(memLimit)])>>)
        \o When(cpuLimit # 0 /\ cpuLimit < MinCPUMilli,
             <<Issue("warning", "resources", <<"Very low CPU limit for ", name>>,
                     [container |-> name, cpu_limit |-> ToString(cpuLimit)])>>)
        \o When(cpuLimit # 0 /\ cpuRequest # 0 /\ cpuRequest > cpuLimit,
             <<Issue("warning", "resources", <<"CPU request > limit for ", name>>,
                     [container |-> name, cpu_request |-> ToString(cpuRequest),
                      cpu_limit |-> ToString(cpuLimit)])>>)
        \o When(~isGuaranteedQoS(resources) /\ ~isBurstableQoS(resources),
             <<Issue("warning", "resources", <<"BestEffort QoS for ", name>>,
                     [container |-> name, qos_class |-> "BestEffort"])>>)

ResourceAnalyzer_Analyze(p) ==
    Result(FlatMap(ResourceAnalyzer_analyzeContainer, p.Containers)
           \o FlatMap(ResourceAnalyzer_analyzeContainer, p.InitContainers),
           FALSE, <<>>)

(***************************************************************************)
(* ProbeAnalyzer                                                           *)
(***************************************************************************)
\* if probe.PeriodSeconds > 0 && probe.PeriodSeconds < 5
AggressivePeriodAnyValue(probe) == probe.PeriodSeconds < 5

AggressivePeriod(probe) == probe.PeriodSeconds > 0 /\ probe.PeriodSeconds < 5

analyzeLivenessProbe(containerName, probe) ==
    When(AggressivePeriod(probe),
         <<Issue("warning", "probes",
                 <<"Aggressive liveness probe for ", containerName>>,
                 [container |-> containerName,
                  period |-> ToString(probe.PeriodSeconds)])>>)
    \o When(probe.FailureThreshold > 0 /\ probe.FailureThreshold < 3,
         <<Issue("warning", "probes",
                 <<"Low liveness failureThreshold for ", containerName>>,
                 [container |-> containerName,
                  failure_threshold |-> ToString(probe.FailureThreshold)])>>)
    \o When(probe.TimeoutSeconds > 0 /\ probe.TimeoutSeconds < 2,
         <<Issue("info", "probes",
                 <<"Short liveness timeout for ", containerName>>,
                 [container |-> containerName,
                  timeout |-> ToString(probe.TimeoutSeconds)])>>)

analyzeReadinessProbe(containerName, probe) ==
    When(probe.InitialDelaySeconds > 60,
         <<Issue("info", "probes",
                 <<"Long readiness initialDelaySeconds for ", containerName>>,
                 [container |-> containerName,
                  initial_delay |-> ToString(probe.InitialDelaySeconds)])>>)

analyzeStartupProbe(containerName, probe) ==
    LET maxStartupTime == probe.FailureThreshold * probe.PeriodSeconds
    IN  When(maxStartupTime > 0 /\ maxStartupTime < 30,
             <<Issue("warning", "probes",
                     <<"Short startup window for ", containerName>>,
                     [container |-> containerName,
                      max_startup_time |-> ToString(maxStartupTime)])>>)

\* if !hasLiveness && !hasReadiness
NoHealthProbesEither(container) ==
    ~container.LivenessProbe.Set \/ ~container.ReadinessProbe.Set

NoHealthProbes(container) ==
    ~container.LivenessProbe.Set /\ ~container.ReadinessProbe.Set

analyzeContainerProbes(container) ==
    LET hasLiveness == container.LivenessProbe.Set
        hasReadiness == container.ReadinessProbe.Set
        hasStartup == container.StartupProbe.Set
    IN  When(NoHealthProbes(container),
             <<Issue("info", "probes", <<"No health probes for ", container.Name>>,
                     [container |-> container.Name])>>)
        \o When(hasLiveness,
                analyzeLivenessProbe(container.Name, container.LivenessProbe))
        \o When(hasReadiness,
                analyzeReadinessProbe(container.Name, container.ReadinessProbe))
        \o When(hasStartup,
                analyzeStartupProbe(container.Name, container.StartupProbe))
        \o When(hasLiveness /\ ~hasStartup
                /\ container.LivenessProbe.InitialDelaySeconds < 10,
             <<Issue("warning", "probes",
                     <<"Low liveness initialDelaySeconds for ", container.Name>>,
                     [container |-> container.Name,
                      initial_delay |->
                          ToString(container.LivenessProbe.InitialDelaySeconds)])>>)

analyzeProbeEvents(events) ==
    LET OfEvent(event) ==
            IF event.Type # "Warning" \/ event.Reason # "Unhealthy" THEN <<>>
            ELSE LET probeType ==
                        CASE StrContains(event.Message, "Liveness") -> "Liveness"
                          [] StrContains(event.Message, "Readiness") -> "Readiness"
                          [] StrContains(event.Message, "Startup") -> "Startup"
                          [] OTHER -> "Unknown"
                     severity ==
                        IF probeType \in {"Liveness", "Startup"}
                        THEN "critical" ELSE "warning"
                 IN  <<Issue(severity, "probes", <<probeType, " probe failed">>,
                             [probe_type |-> probeType,
                              count |-> <<ToString(event.Count)>>])>>
    IN  FlatMap(OfEvent, events)

ProbeAnalyzer_analyzeContainerStatus(cs) ==
    When(~cs.Ready /\ cs.State.Kind = "running",
         <<Issue("warning", "probes",
                 <<"Container ", cs.Name, " running but not ready">>,
                 [container |-> cs.Name, state |-> "running", ready |-> "false"])>>)
    \o When(cs.RestartCount > 0 /\ cs.LastTerminationState.Kind = "terminated"
            /\ cs.LastTerminationState.ExitCode = 137,
         <<Issue("warning", "probes",
                 <<"Container ", cs.Name, " killed (exit 137)">>,
                 [container |-> cs.Name, exit_code |-> "137",
                  restart_count |-> ToString(cs.RestartCount),
                  reason |-> cs.LastTerminationState.Reason])>>)

\* ok: whether the GetPodEvents call succeeds; a failure is ignored.
ProbeAnalyzer_Analyze(p, events, ok) ==
    Result(FlatMap(analyzeContainerProbes, p.Containers)
           \o When(ok, analyzeProbeEvents(events))
           \o FlatMap(ProbeAnalyzer_analyzeContainerStatus, p.ContainerStatuses),
           FALSE, <<Call("GetPodEvents", <<>>, ok, "probes")>>)

(***************************************************************************)
(* LogAnalyzer                                                             *)
(***************************************************************************)
\* A log line: Text names its content and Len is its length in bytes, which
\* is what len(line) and line[:n] count; every character of the line takes
\* Width bytes (1 for ASCII text).  A line cut by truncateLine keeps the
\* first Kept bytes of Text and ends in "..." (Ellipsis).
LogLine(text, len) ==
    [Text |-> text, Len |-> len, Kept |-> len, Ellipsis |-> FALSE, Width |-> 1]

\* A line of chars characters that take width bytes each in UTF-8.
WideLine(text, chars, width) ==
    [LogLine(text, chars * width) EXCEPT !.Width = width]

\* The patterns of NewLogAnalyzer, in declaration order.
Pattern(regex, title, severity) ==
    [Regex |-> regex, Title |-> title, Severity |-> severity]

Patterns ==
    <<Pattern("(?i)panic:", "Panic detected", "critical"),
      Pattern("(?i)fatal\\s*(error)?:", "Fatal error", "critical"),
      Pattern("(?i)out\\s*of\\s*memory", "Out of memory", "critical"),
      Pattern("(?i)killed", "Process killed", "warning"),
      Pattern("(?i)connection\\s*refused", "Connection refused", "warning"),
      Pattern("(?i)ECONNREFUSED", "Connection refused", "warning"),
      Pattern("(?i)permission\\s*denied", "Permission denied", "warning"),
      Pattern("(?i)access\\s*denied", "Access denied", "warning"),
      Pattern("(?i)no\\s*such\\s*file", "File not found", "warning"),
      Pattern("(?i)timeout|timed?\\s*out", "Timeout", "warning"),
      Pattern("(?i)deadline\\s*exceeded", "Deadline exceeded", "warning"),
      Pattern("(?i)certificate\\s*(verify|validation)\\s*failed",
              "Certificate error", "warning"),
      Pattern("(?i)authentication\\s*failed", "Auth failed", "warning"),
      Pattern("(?i)unauthorized", "Unauthorized", "warning"),
      Pattern("(?i)segmentation\\s*fault", "Segfault", "critical"),
      Pattern("(?i)stack\\s*overflow", "Stack overflow", "critical"),
      Pattern("(?i)null\\s*pointer", "Null pointer", "critical")>>

\* The log lines of the model and the patterns each one matches.
LinePanic == LogLine("panic: runtime error: index out of range", 40)
LineRefused == LogLine("dial tcp 10.0.0.5:5432: connection refused", 42)
LineEconn == LogLine("connect ECONNREFUSED 10.0.0.5:5432", 34)
LineFatalOOM == LogLine("fatal error: runtime: out of memory", 35)
LineInfo == LogLine("server listening on :8080", 25)
LineEmpty == LogLine("", 0)
LineSpaces == LogLine("   ", 3)
LineLongTimeout == LogLine("upstream request timeout, followed by a 226 byte trace id", 250)

RegexMatches ==
    {<<LinePanic.Text, "(?i)panic:">>,
     <<LineRefused.Text, "(?i)connection\\s*refused">>,
     <<LineEconn.Text, "(?i)ECONNREFUSED">>,
     <<LineFatalOOM.Text, "(?i)fatal\\s*(error)?:">>,
     <<LineFatalOOM.Text, "(?i)out\\s*of\\s*memory">>,
     <<LineLongTimeout.Text, "(?i)timeout|timed?\\s*out">>}

\* pattern.Pattern.MatchString(line)
MatchString(pattern, line) == <<line.Text, pattern.Regex>> \in RegexMatches

\* strings.TrimSpace(line) == ""
IsBlank(line) == line.Text \in {LineEmpty.Text, LineSpaces.Text}

truncateLine(line, maxLen) ==
    IF line.Len <= maxLen THEN line
    ELSE [Text |-> line.Text, Len |-> (maxLen - 3) + 3, Kept |-> maxLen - 3,
          Ellipsis |-> TRUE, Width |-> line.Width]

\* matchedPatterns[title] after the scan of the lines: for every non-blank
\* line in order, and every pattern in order that carries the title and
\* matches the line, the truncated line.
MatchedPatterns(lines, title) ==
    LET OfLine(line) ==
            LET OfPattern(pattern) ==
                    IF pattern.Title = title /\ MatchString(pattern, line)
                    THEN <<truncateLine(line, 200)>> ELSE <<>>
            IN  IF IsBlank(line) THEN <<>> ELSE FlatMap(OfPattern, Patterns)
    IN  FlatMap(OfLine, lines)

\* The part of analyzeContainerLogs after a successful fetch; lines is the
\* fetched text split at newlines, <<>> for the empty text.
IssuesOfLogs(containerName, lines) ==
    LET OfPattern(pattern) ==
            LET matches == MatchedPatterns(lines, pattern.Title)
                details == [container |-> containerName,
                            match_count |-> ToString(Len(matches)),
                            sample_match |-> matches[1]]
            IN  IF matches = <<>> THEN <<>>
                ELSE <<Issue(pattern.Severity, "logs",
                             <<"[", containerName, "] ", pattern.Title>>,
                             IF Len(matches) > 1
                             THEN [container |-> containerName,
                                   match_count |-> ToString(Len(matches)),
                                   sample_match |-> matches[1],
                                   additional_matches |->
                                       <<ToString(Len(matches) - 1), " more occurrences">>]
                             ELSE details)>>
    IN  IF lines = <<>> THEN <<>> ELSE FlatMap(OfPattern, Patterns)

\* analyzeContainerLogs: one GetPodLogs call (tail 100) and, when it
\* succeeds, the issues of the text.
analyzeContainerLogs(containerName, previous, ok, lines) ==
    LET call == Call("GetPodLogs", <<containerName, 100, previous>>, ok, "logs")
    IN  IF ~ok THEN Result(<<>>, TRUE, <<call>>)
        ELSE Result(IssuesOfLogs(containerName, lines), FALSE, <<call>>)

\* if err != nil: the previous logs are requested after a failed first fetch
RetryPreviousAlways(firstErr) == TRUE

RetryPrevious(firstErr) == firstErr

\* logs[name] holds the Current and the Previous log text of a container;
\* fetch[i] tells which fetch succeeds for the i-th container: "current",
\* "previous" (the first fails, the retry succeeds) or "none".
RECURSIVE LogAnalyzerLoop(_, _, _, _)
LogAnalyzerLoop(containers, logs, fetch, i) ==
    IF i > Len(containers) THEN Result(<<>>, FALSE, <<>>)
    ELSE LET name == containers[i].Name
             first == analyzeContainerLogs(name, FALSE, fetch[i] = "current",
                                           logs[name].Current)
             retry == analyzeContainerLogs(name, TRUE, fetch[i] = "previous",
                                           logs[name].Previous)
             rest == LogAnalyzerLoop(containers, logs, fetch, i + 1)
         IN  IF RetryPrevious(first.Err)
             THEN Result(retry.Issues \o rest.Issues, FALSE,
                         first.Calls \o retry.Calls \o rest.Calls)
             ELSE Result(first.Issues \o rest.Issues, FALSE,
                         first.Calls \o rest.Calls)

LogAnalyzer_Analyze(p, logs, fetch) == LogAnalyzerLoop(p.Containers, logs, fetch, 1)

(***************************************************************************)
(* PodAnalyzer.Diagnose                                                    *)
(***************************************************************************)
\* The analyzers of NewPodAnalyzer, by Name(), in slice order.
Analyzers == <<"status", "events", "logs", "node", "resources", "probes">>

\* What the Signal Source holds for the pod under diagnosis.
World(p, events, nodeConds, logs) ==
    [Pod |-> p, Events |-> events, NodeConds |-> nodeConds, Logs |-> logs]

ContainerLogs(current, previous) == [Current |-> current, Previous |-> previous]

GuaranteedResources ==
    Resources([cpu |-> 500, memory |-> 256], [cpu |-> 500, memory |-> 256])

\* A running, ready pod on a healthy node.
HealthyWorld ==
    World(CreatedAt(Pod(FALSE, "Running", "", "node-1",
              <<PodCondition("PodScheduled", "True", ""),
                PodCondition("Ready", "True", "")>>,
              <<ContainerStatus("app", RunningState, NoState, TRUE, 0)>>, <<>>,
              <<Container("app", GuaranteedResources, Probe(10, 10, 3, 1),
                          Probe(5, 10, 3, 1), NoProbe)>>, <<>>), 3600),
          <<EventInfo("Normal", "Scheduled", "Successfully assigned", 1),
            EventInfo("Normal", "Started", "Started container app", 1)>>,
          <<PodCondition("Ready", "True", "")>>,
          [app |-> ContainerLogs(<<LineInfo>>, <<>>)])

\* The pod of the README example: crash-looping after an OOM kill.
CrashLoopWorld ==
    World(CreatedAt(Pod(FALSE, "Running", "", "node-1",
              <<PodCondition("PodScheduled", "True", ""),
                PodCondition("Ready", "False", "ContainersNotReady")>>,
              <<ContainerStatus("app", WaitingState("CrashLoopBackOff"),
                                TerminatedState("OOMKilled", 137), FALSE, 47)>>,
              <<>>,
              <<Container("app", Resources([memory |-> 128], <<>>),
                          Probe(0, 10, 1, 1), NoProbe, NoProbe)>>, <<>>), 7200),
          <<EventInfo("Warning", "BackOff", "Back-off restarting failed container", 47),
            EventInfo("Warning", "Unhealthy",
                      "Liveness probe failed: HTTP probe failed with statuscode: 503", 3),
            EventInfo("Normal", "Pulled", "Container image already present", 47)>>,
          <<PodCondition("Ready", "True", ""),
            PodCondition("MemoryPressure", "True", "")>>,
          [app |-> ContainerLogs(<<LineFatalOOM, LineRefused, LineSpaces,
                                   LineEconn, LineLongTimeout>>,
                                 <<LinePanic, LineEmpty>>)])

\* A pod the scheduler could not place: no node, no container status.
UnscheduledWorld ==
    World(CreatedAt(Pod(FALSE, "Pending", "", "",
              <<PodCondition("PodScheduled", "False", "Unschedulable")>>,
              <<>>, <<>>,
              <<Container("app", NoResources, NoProbe, NoProbe, NoProbe)>>, <<>>), 60),
          <<EventInfo("Warning", "FailedScheduling", "0/3 nodes are available", 5)>>,
          <<>>,
          [app |-> ContainerLogs(<<>>, <<>>)])

\* Two containers, one not ready, on a node that is not ready.
SidecarWorld ==
    World(CreatedAt(Pod(FALSE, "Running", "", "node-2",
              <<PodCondition("PodScheduled", "True", ""),
                PodCondition("ContainersReady", "False", "ContainersNotReady")>>,
              <<ContainerStatus("app", RunningState, NoState, TRUE, 0),
                ContainerStatus("sidecar", RunningState,
                                TerminatedState("Error", 1), FALSE, 6)>>,
              <<ContainerStatus("init", TerminatedState("Completed", 0),
                                NoState, TRUE, 0)>>,
              <<Container("app", GuaranteedResources, Probe(10, 10, 3, 1),
                          Probe(5, 10, 3, 1), NoProbe),
                Container("sidecar",
                          Resources([cpu |-> 100, memory |-> 32],
                                    [cpu |-> 20, memory |-> 32]),
                          NoProbe, Probe(0, 5, 3, 1), NoProbe)>>,
              <<Container("init", NoResources, NoProbe, NoProbe, NoProbe)>>), 86400),
          <<EventInfo("Warning", "Unhealthy",
                      "Readiness probe failed: connection refused", 12)>>,
          <<PodCondition("Ready", "False", "KubeletNotReady"),
            PodCondition("NetworkUnavailable", "True", "")>>,
          [app |-> ContainerLogs(<<LineInfo, LineRefused, LineRefused>>, <<>>),
           sidecar |-> ContainerLogs(<<LineEconn>>, <<LinePanic>>)])

DiagWorlds == {HealthyWorld, CrashLoopWorld, UnscheduledWorld, SidecarWorld}

\* domain.ContainerInfo of a container of the pod spec: the fields of its
\* status when the pod has one under its name, else the zero values.
ContainerInfo(container, css) ==
    LET found == {i \in DOMAIN css : css[i].Name = container.Name}
        \* containerStatuses[cs.Name] = cs: the last status of a name wins
        cs == css[CHOOSE i \in found : \A j \in found : j <= i]
    IN  IF found = {}
        THEN [Name |-> container.Name, Ready |-> FALSE, RestartCount |-> 0,
              State |-> "", Reason |-> "", ExitCode |-> 0]
        ELSE [Name |-> container.Name, Ready |-> cs.Ready,
              RestartCount |-> cs.RestartCount,
              State |-> IF cs.State.Kind = "none" THEN "" ELSE cs.State.Kind,
              Reason |-> cs.State.Reason, ExitCode |-> cs.State.ExitCode]

RECURSIVE SumRestarts(_)
SumRestarts(css) ==
    IF css = <<>> THEN 0 ELSE Head(css).RestartCount + SumRestarts(Tail(css))

\* time.Since(t) read at clock value t0
Since(t, t0) == t0 - t

\* Age mutated to the age at creation of the snapshot: no clock read.
PodAgeFrozen(p, t0) == 0

PodAge(p, t0) ==
    IF p.CreationTimestamp # 0 THEN Since(p.CreationTimestamp, t0) ELSE 0

\* kubernetes.ExtractPodInfo at clock value t0 (name, namespace, IP, labels,
\* images, messages and start/finish times are not modelled).
ExtractPodInfo(p, t0) ==
    LET Info(container) == <<ContainerInfo(container, p.ContainerStatuses)>>
    IN  [Node |-> p.NodeName, Phase |-> p.Phase, Age |-> PodAge(p, t0),
         Restarts |-> SumRestarts(p.ContainerStatuses),
         Containers |-> FlatMap(Info, p.Containers)]

NoPodInfo ==
    [Node |-> "", Phase |-> "", Age |-> 0, Restarts |-> 0, Containers |-> <<>>]

\* domain.NewDiagnosis at clock value t0; Node is <<>> for nil and
\* <<health>> when set.
NewDiagnosis(podInfo, t0) ==
    [Pod |-> podInfo, Status |-> "Unknown", Issues |-> <<>>, Events |-> <<>>,
     Node |-> <<>>, Recommendations |-> <<>>, DiagnosedAt |-> t0]

\* The value of the diagnosis variable while Diagnose holds none.
NilDiagnosis ==
    [Pod |-> NoPodInfo, Status |-> "", Issues |-> <<>>, Events |-> <<>>,
     Node |-> <<>>, Recommendations |-> <<>>, DiagnosedAt |-> 0]

\* How the Signal Source answers the calls of one analyzer: Ok for its
\* GetPodEvents or GetNodeHealth call, Fetch for the log fetches of the
\* containers.
Responses(p) ==
    [Ok : BOOLEAN,
     Fetch : [1..Len(p.Containers) -> {"current", "previous", "none"}]]

\* analyzer.Analyze(ctx, pod, p.client)
Analyze(name, w, resp) ==
    CASE name = "status" -> StatusAnalyzer_Analyze(w.Pod)
      [] name = "events" -> EventAnalyzer_Analyze(w.Pod, w.Events, resp.Ok)
      [] name = "logs" -> LogAnalyzer_Analyze(w.Pod, w.Logs, resp.Fetch)
      [] name = "node" -> NodeAnalyzer_Analyze(w.Pod, w.NodeConds, resp.Ok)
      [] name = "resources" -> ResourceAnalyzer_Analyze(w.Pod)
      [] name = "probes" -> ProbeAnalyzer_Analyze(w.Pod, w.Events, resp.Ok)

\* if err != nil { return nil, err }
AfterGetPodIgnoreErr(ok) == "analyze"

AfterGetPod(ok) == IF ok THEN "analyze" ELSE "failed"

\* The loop over p.analyzers: the index after the analyzer at index i
\* returned; an error continues with the next analyzer.
NextAnalyzerBreakOnErr(i, err) == IF err THEN Len(Analyzers) + 1 ELSE i + 1

NextAnalyzer(i, err) == i + 1

\* if err != nil { continue }; for _, issue := range issues { AddIssue }
IssuesAfter(issues, res) ==
    IF res.Err THEN issues ELSE issues \o res.Issues

\* if err == nil { diagnosis.Events = events }
EventsAfterFetch(old, events, ok) == IF ok THEN events ELSE old

\* if err == nil { diagnosis.Node = nodeHealth }
NodeAfterFetch(old, health, ok) == IF ok THEN <<health>> ELSE old

DiagIdle ==
    /\ dpc = "off"
    /\ ai = 0
    /\ world = <<>>
    /\ diagnosis = NilDiagnosis
    /\ calls = <<>>
    /\ invoked = <<>>
    /\ now = 0 /\ run = 0 /\ firstRun = NilDiagnosis /\ script = <<>>

\* Diagnose is called for a pod that was created up to MaxElapsed seconds
\* before the snapshot ages of the worlds.
DiagInit ==
    /\ dpc = "start"
    /\ ai = 0
    /\ world \in DiagWorlds
    /\ diagnosis = NilDiagnosis
    /\ calls = <<>>
    /\ invoked = <<>>
    /\ \E d \in 1..MaxElapsed : now = world.Pod.CreationTimestamp + d
    /\ run = 1
    /\ firstRun = NilDiagnosis
    /\ script = <<>>

\* GetPod, ExtractPodInfo, NewDiagnosis, detectPodStatus
DiagGetPod ==
    /\ dpc = "start"
    /\ \E ok \in BOOLEAN :
        /\ calls' = <<Call("GetPod", <<>>, ok, "Diagnose")>>
        /\ dpc' = AfterGetPod(ok)
        /\ IF dpc' = "analyze"
           THEN /\ diagnosis' = [NewDiagnosis(ExtractPodInfo(world.Pod, now),
                                              now) EXCEPT
                                    !.Status = detectPodStatus(world.Pod)]
                /\ ai' = 1
           ELSE UNCHANGED <<diagnosis, ai>>
    /\ UNCHANGED <<world, invoked, twiceVars>>

\* One iteration of the loop over p.analyzers.
DiagAnalyze ==
    /\ dpc = "analyze"
    /\ ai <= Len(Analyzers)
    /\ \E resp \in Responses(world.Pod) :
        LET res == Analyze(Analyzers[ai], world, resp) IN
        /\ invoked' = Append(invoked, [Name |-> Analyzers[ai], Err |-> res.Err,
                                       Issues |-> res.Issues])
        /\ calls' = calls \o res.Calls
        /\ diagnosis' = [diagnosis EXCEPT
                            !.Issues = IssuesAfter(diagnosis.Issues, res)]
        /\ ai' = NextAnalyzer(ai, res.Err)
        /\ dpc' = IF ai' > Len(Analyzers) THEN "events" ELSE "analyze"
    /\ UNCHANGED <<world, twiceVars>>

\* events, err := p.client.GetPodEvents(...)
DiagGetEvents ==
    /\ dpc = "events"
    /\ \E ok \in BOOLEAN :
        /\ calls' = Append(calls, Call("GetPodEvents", <<>>, ok, "Diagnose"))
        /\ diagnosis' = [diagnosis EXCEPT
                            !.Events = EventsAfterFetch(diagnosis.Events,
                                                        world.Events, ok)]
    /\ dpc' = "node"
    /\ UNCHANGED <<ai, world, invoked, twiceVars>>

\* The node-health fetch for a scheduled pod, generateRecommendations and
\* the return of the diagnosis.
DiagGetNode ==
    /\ dpc = "node"
    /\ IF world.Pod.NodeName # ""
       THEN \E ok \in BOOLEAN :
              /\ calls' = Append(calls, Call("GetNodeHealth",
                                             <<world.Pod.NodeName>>, ok,
                                             "Diagnose"))
              /\ diagnosis' =
                    [diagnosis EXCEPT
                        !.Node = NodeAfterFetch(diagnosis.Node,
                                    GetNodeHealth(world.Pod.NodeName,
                                                  world.NodeConds), ok),
                        !.Recommendations =
                            generateRecommendations(diagnosis.Issues)]
       ELSE /\ calls' = calls
            /\ diagnosis' = [diagnosis EXCEPT
                                !.Recommendations =
                                    generateRecommendations(diagnosis.Issues)]
    /\ dpc' = "done"
    /\ UNCHANGED <<ai, world, invoked, twiceVars>>

\* Diagnose is called a first time for a pod created a second ago or more.
TwiceWorlds == {CrashLoopWorld, UnscheduledWorld}

TwiceInit ==
    /\ dpc = "start"
    /\ ai = 0
    /\ world \in TwiceWorlds
    /\ diagnosis = NilDiagnosis
    /\ calls = <<>>
    /\ invoked = <<>>
    /\ now = world.Pod.CreationTimestamp + 1
    /\ run = 1
    /\ firstRun = NilDiagnosis
    /\ script = <<>>

\* The first call has returned; Diagnose is called again for the same pod,
\* later, against a Signal Source that holds the same data.
DiagnoseAgain ==
    /\ run = 1
    /\ dpc \in {"done", "failed"}
    /\ firstRun' = diagnosis
    /\ script' = calls
    /\ run' = 2
    /\ \E d \in 1..MaxElapsed : now' = now + d
    /\ dpc' = "start"
    /\ ai' = 0
    /\ diagnosis' = NilDiagnosis
    /\ calls' = <<>>
    /\ invoked' = <<>>
    /\ UNCHANGED world

\* The Signal Source answers the second call as it answered the first: the
\* calls made so far in the second call are, with their answers, the first
\* calls of the first one.
SameAnswers(made) ==
    /\ Len(made) <= Len(script)
    /\ made = SubSeq(script, 1, Len(made))

(***************************************************************************)
(* Diagnose over the container configurations of a running, ready pod      *)
(***************************************************************************)
\* Resource settings: limits equal to requests for cpu and memory, the same
\* for memory alone, and none at all.
ResourceSettings ==
    {GuaranteedResources,
     Resources([memory |-> 256], [memory |-> 256]),
     NoResources}

\* Probe(delay, period, threshold, timeout) settings on both sides of the
\* thresholds of the probe checks.
LivenessSettings ==
    {NoProbe, Probe(30, 10, 3, 5), Probe(5, 10, 3, 5), Probe(30, 2, 3, 5),
     Probe(30, 10, 1, 5), Probe(30, 10, 3, 1)}

ReadinessSettings == {NoProbe, Probe(5, 10, 3, 5), Probe(90, 10, 3, 5)}

StartupSettings == {NoProbe, Probe(0, 10, 30, 5), Probe(0, 5, 2, 5)}

\* The running, ready pod of HealthyWorld with the container configuration.
ConfiguredWorld(resources, liveness, readiness, startup) ==
    [HealthyWorld EXCEPT
        !.Pod.Containers = <<Container("app", resources, liveness, readiness,
                                       startup)>>]

ConfigWorlds ==
    {ConfiguredWorld(r, l, rd, s) :
        r \in ResourceSettings, l \in LivenessSettings,
        rd \in ReadinessSettings, s \in StartupSettings}

ConfigInit ==
    /\ dpc = "start"
    /\ ai = 0
    /\ world \in ConfigWorlds
    /\ diagnosis = NilDiagnosis
    /\ calls = <<>>
    /\ invoked = <<>>
    /\ now = world.Pod.CreationTimestamp + 1
    /\ run = 1
    /\ firstRun = NilDiagnosis
    /\ script = <<>>

(***************************************************************************)
(* Diagnose over the container statuses and phases of a pod                *)
(***************************************************************************)
\* cs.State: running, waiting with each reason the analyzers name, with a
\* reason they do not name and with none, terminated with and without error.
ContainerStates ==
    {RunningState, TerminatedState("Error", 1), TerminatedState("Completed", 0)}
    \cup {WaitingState(r) :
             r \in CriticalWaitingReasons
                   \cup {"ContainerCreating", "PodInitializing", "",
                         "InvalidImageName"}}

\* cs.LastTerminationState
LastStates ==
    {NoState, TerminatedState("OOMKilled", 137), TerminatedState("OOMKilled", 0),
     TerminatedState("Error", 1), TerminatedState("Completed", 0)}

\* cs.RestartCount, on both sides of the restart threshold
RestartCounts == {0, 5, 6}

AppStatuses ==
    {ContainerStatus("app", st, last, st = RunningState, n) :
        st \in ContainerStates, last \in LastStates, n \in RestartCounts}

SidecarStatuses ==
    {ContainerStatus("sidecar", RunningState, NoState, TRUE, 0),
     ContainerStatus("sidecar", WaitingState("ImagePullBackOff"), NoState,
                     FALSE, 0),
     ContainerStatus("sidecar", WaitingState("CrashLoopBackOff"),
                     TerminatedState("OOMKilled", 137), FALSE, 6)}

InitStatuses ==
    {ContainerStatus("setup", TerminatedState("Completed", 0), NoState, TRUE, 0),
     ContainerStatus("setup", TerminatedState("Error", 1),
                     TerminatedState("Error", 1), FALSE, 6)}

\* pod.Status.Phase and pod.Status.Reason
ContainerPhases == {<<"Running", "">>, <<"Failed", "Evicted">>, <<"Failed", "">>}

\* The pod of HealthyWorld with the container statuses and the phase.
StatusWorld(css, initCss, phase) ==
    [HealthyWorld EXCEPT !.Pod.ContainerStatuses = css,
                         !.Pod.InitContainerStatuses = initCss,
                         !.Pod.Phase = phase[1], !.Pod.Reason = phase[2]]

ContainerWorlds ==
    {StatusWorld(<<a>>, <<>>, ph) : a \in AppStatuses, ph \in ContainerPhases}
    \cup {StatusWorld(<<a, s>>, <<i>>, <<"Running", "">>) :
            a \in {c \in AppStatuses : c.RestartCount = 6 /\ c.State.Reason # ""},
            s \in SidecarStatuses, i \in InitStatuses}
    \cup {StatusWorld(<<>>, <<>>, ph) : ph \in ContainerPhases}

ContainersInit ==
    /\ dpc = "start"
    /\ ai = 0
    /\ world \in ContainerWorlds
    /\ diagnosis = NilDiagnosis
    /\ calls = <<>>
    /\ invoked = <<>>
    /\ now = world.Pod.CreationTimestamp + 1
    /\ run = 1
    /\ firstRun = NilDiagnosis
    /\ script = <<>>

(***************************************************************************)
(* Diagnose over the events of a pod                                       *)
(***************************************************************************)
\* Reasons of Warning events: the four the Event analyzer skips, the seven
\* of its severity switch, and one for each remaining category.
WarningReasons ==
    {"Scheduled", "Pulled", "Created", "Started",
     "Failed", "FailedScheduling", "FailedMount", "FailedAttachVolume",
     "BackOff", "Unhealthy", "ProbeWarning",
     "ErrImagePull", "OOMKilling", "NodeNotReady"}

EventMessage(reason) ==
    IF reason = "Unhealthy"
    THEN "Liveness probe failed: HTTP probe failed with statuscode: 503"
    ELSE "event message"

PodEvents ==
    {EventInfo("Warning", r, EventMessage(r), 3) : r \in WarningReasons}
    \cup {EventInfo("Normal", r, EventMessage(r), 1) :
            r \in {"Scheduled", "Failed", "Unhealthy"}}

\* The pod of HealthyWorld with the events, on a node with the conditions.
EventWorld(events) == [HealthyWorld EXCEPT !.Events = events]

EventWorlds == {EventWorld(evs) : evs \in SeqsUpTo(PodEvents, 2)}

EventsInit ==
    /\ dpc = "start"
    /\ ai = 0
    /\ world \in EventWorlds
    /\ diagnosis = NilDiagnosis
    /\ calls = <<>>
    /\ invoked = <<>>
    /\ now = world.Pod.CreationTimestamp + 1
    /\ run = 1
    /\ firstRun = NilDiagnosis
    /\ script = <<>>

(***************************************************************************)
(* Diagnose over the resource requirements of the containers               *)
(***************************************************************************)
\* resources.Limits: no entry, cpu and memory, memory alone, entries with
\* the zero quantity, cpu and memory below the floors, and an entry for
\* another resource.  Memory in Mi, cpu in millicores.
LimitLists ==
    {<<>>, [cpu |-> 500, memory |-> 256], [memory |-> 256],
     [cpu |-> 0, memory |-> 0], [cpu |-> 40, memory |-> 32],
     [storage |-> 1024]}

\* resources.Requests: the same and one above the limits.
RequestLists == LimitLists \cup {[cpu |-> 600, memory |-> 512]}

ResourceRequirements ==
    {Resources(l, r) : l \in LimitLists, r \in RequestLists}

\* pod.Spec.InitContainers: none, or one init container.
InitContainerLists ==
    {<<>>}
    \cup {<<Container("setup", r, NoProbe, NoProbe, NoProbe)>> :
            r \in {NoResources, GuaranteedResources,
                   Resources([memory |-> 256], <<>>)}}

\* The pod of HealthyWorld with the resources of its container and with the
\* init containers.
ResourceWorld(resources, initContainers) ==
    [HealthyWorld EXCEPT
        !.Pod.Containers = <<Container("app", resources, Probe(10, 10, 3, 5),
                                       Probe(5, 10, 3, 5), NoProbe)>>,
        !.Pod.InitContainers = initContainers]

ResourceWorlds ==
    {ResourceWorld(r, ics) : r \in ResourceRequirements,
                             ics \in InitContainerLists}

ResourcesInit ==
    /\ dpc = "start"
    /\ ai = 0
    /\ world \in ResourceWorlds
    /\ diagnosis = NilDiagnosis
    /\ calls = <<>>
    /\ invoked = <<>>
    /\ now = world.Pod.CreationTimestamp + 1
    /\ run = 1
    /\ firstRun = NilDiagnosis
    /\ script = <<>>

(***************************************************************************)
(* Diagnose over the probe settings of a container                         *)
(***************************************************************************)
\* int32 values of probe fields on both sides of 0 and of each threshold.
PeriodValues == {-1, 0, 1, 4, 5, 10}

ThresholdValues == {-1, 0, 1, 2, 3, 30}

TimeoutValues == {-1, 0, 1, 2}

LivenessProbes ==
    {Probe(30, period, threshold, timeout) :
        period \in PeriodValues, threshold \in ThresholdValues,
        timeout \in TimeoutValues}

StartupProbes ==
    {Probe(0, period, threshold, 5) :
        period \in PeriodValues, threshold \in ThresholdValues}

\* Statuses of the container: restarted or not, last terminated with exit
\* code 137, with another code, or never.
ProbeStatuses ==
    {ContainerStatus("app", RunningState, last, TRUE, n) :
        last \in {NoState, TerminatedState("Error", 137),
                  TerminatedState("Error", 1)},
        n \in {0, 1}}

\* The pod of HealthyWorld with the probes and the status of its container.
ProbeWorld(liveness, startup, cs) ==
    [HealthyWorld EXCEPT
        !.Pod.Containers = <<Container("app", GuaranteedResources, liveness,
                                       Probe(5, 10, 3, 5), startup)>>,
        !.Pod.ContainerStatuses = <<cs>>]

ProbeWorlds ==
    LET quiet == ContainerStatus("app", RunningState, NoState, TRUE, 0) IN
    {ProbeWorld(l, NoProbe, quiet) : l \in LivenessProbes}
    \cup {ProbeWorld(Probe(30, 10, 3, 5), s, quiet) : s \in StartupProbes}
    \cup {ProbeWorld(Probe(30, 10, 3, 5), NoProbe, cs) : cs \in ProbeStatuses}

ProbesInit ==
    /\ dpc = "start"
    /\ ai = 0
    /\ world \in ProbeWorlds
    /\ diagnosis = NilDiagnosis
    /\ calls = <<>>
    /\ invoked = <<>>
    /\ now = world.Pod.CreationTimestamp + 1
    /\ run = 1
    /\ firstRun = NilDiagnosis
    /\ script = <<>>

(***************************************************************************)
(* Runs of the log analyzer and of truncateLine                            *)
(***************************************************************************)
LogLines ==
    {LinePanic, LineRefused, LineEconn, LineFatalOOM, LineInfo, LineEmpty,
     LineSpaces, LineLongTimeout}

ContainerNames == <<"app", "sidecar", "proxy", "agent">>

\* A running pod with the first n container names.
LogPodOf(n) ==
    Pod(FALSE, "Running", "", "node-1", <<>>, <<>>, <<>>,
        [i \in 1..n |-> Container(ContainerNames[i], NoResources, NoProbe,
                                  NoProbe, NoProbe)],
        <<>>)

\* The absent line: the value of tlLine and tlOut outside truncateLine runs.
NoLine == LogLine("", 0)

NoLogResult == Result(<<>>, FALSE, <<>>)

LogIdle ==
    /\ logPod = <<>> /\ logTexts = <<>> /\ logFetch = <<>>
    /\ logResult = NoLogResult /\ logDone = FALSE
    /\ tlLine = NoLine /\ tlOut = NoLine /\ tlDone = FALSE

\* One container whose current log is any text of up to MaxLogLines lines.
MatchInit ==
    /\ logPod = LogPodOf(1)
    /\ \E text \in SeqsUpTo(LogLines, MaxLogLines) :
          logTexts = [name \in {ContainerNames[1]} |->
                         ContainerLogs(text, <<LinePanic>>)]
    /\ logFetch = <<>>
    /\ logResult = NoLogResult /\ logDone = FALSE
    /\ tlLine = NoLine /\ tlOut = NoLine /\ tlDone = FALSE

\* The log texts of the multi-container runs: current and previous lines.
LogTexts ==
    {ContainerLogs(<<>>, <<>>),
     ContainerLogs(<<LineInfo>>, <<LinePanic>>),
     ContainerLogs(<<LineRefused, LineEconn>>, <<LineFatalOOM>>),
     ContainerLogs(<<LineLongTimeout, LineSpaces, LinePanic>>, <<LineInfo>>)}

\* Up to MaxLogContainers containers, each with one of the log texts.
LogsInit ==
    /\ \E n \in 1..MaxLogContainers :
          /\ logPod = LogPodOf(n)
          /\ logTexts \in [{ContainerNames[i] : i \in 1..n} -> LogTexts]
    /\ logFetch = <<>>
    /\ logResult = NoLogResult /\ logDone = FALSE
    /\ tlLine = NoLine /\ tlOut = NoLine /\ tlDone = FALSE

\* LogAnalyzer.Analyze(ctx, pod, client), the Signal Source answering the
\* log fetches in any way.
LogAnalyze ==
    /\ ~logDone
    /\ logPod # <<>>
    /\ \E fetch \in [1..Len(logPod.Containers) -> {"current", "previous", "none"}] :
          /\ logFetch' = fetch
          /\ logResult' = LogAnalyzer_Analyze(logPod, logTexts, fetch)
    /\ logDone' = TRUE
    /\ UNCHANGED <<logPod, logTexts, tlLine, tlOut, tlDone>>

\* A line of up to MaxLineLen characters of up to MaxRuneBytes bytes each.
TruncateInit ==
    /\ logPod = <<>> /\ logTexts = <<>> /\ logFetch = <<>>
    /\ logResult = NoLogResult /\ logDone = FALSE
    /\ \E n \in 0..MaxLineLen, w \in 1..MaxRuneBytes :
          tlLine = WideLine("line", n, w)
    /\ tlOut = NoLine /\ tlDone = FALSE

\* truncateLine(line, 200), as analyzeContainerLogs calls it
Truncate ==
    /\ ~tlDone
    /\ logPod = <<>>
    /\ tlOut' = truncateLine(tlLine, 200)
    /\ tlDone' = TRUE
    /\ UNCHANGED <<logPod, logTexts, logFetch, logResult, logDone, tlLine>>

(***************************************************************************)
(* runScan: the unhealthy-only filter                                      *)
(***************************************************************************)
\* Diagnosis.IsHealthy, with the issue count left out
IsHealthyByStatus(d) == d.Status = "Healthy"

\* Diagnosis.IsHealthy
IsHealthy(d) == Len(d.Issues) = 0 /\ d.Status = "Healthy"

\* if onlyUnhealthy { for _, d := range diagnoses { if !d.IsHealthy() {
\* filtered = append(filtered, d) } }; diagnoses = filtered }
RECURSIVE FilterUnhealthy(_, _)
FilterUnhealthy(ds, i) ==
    IF i > Len(ds) THEN <<>>
    ELSE (IF ~IsHealthy(ds[i]) THEN <<ds[i]>> ELSE <<>>)
         \o FilterUnhealthy(ds, i + 1)

\* A diagnosis as scanPods returns it: made at t0, with a status and issues.
ScanDiagnosis(t0, st, issues) ==
    [NewDiagnosis(NoPodInfo, t0) EXCEPT !.Status = st, !.Issues = issues]

\* The issue lists of the scan results: none, one info, a critical and a
\* warning.
IssueLists ==
    {<<>>,
     <<Issue("info", "probes", <<"No health probes for ", "app">>,
             [container |-> "app"])>>,
     <<Issue("critical", "container", <<"Container ", "app", " in CrashLoopBackOff">>,
             [container |-> "app", reason |-> "CrashLoopBackOff"]),
       Issue("warning", "container", <<"Pod is not ready">>,
             [reason |-> "ContainersNotReady"])>>}

ScanStatuses == {"Healthy", "CrashLoopBackOff"}

FilterIdle ==
    /\ onlyUnhealthy = FALSE /\ scanResults = <<>> /\ scanOutput = <<>>
    /\ filterDone = FALSE

\* scanPods has returned up to MaxScanResults diagnoses, made one after the
\* other.
FilterInit ==
    /\ onlyUnhealthy \in BOOLEAN
    /\ \E n \in 0..MaxScanResults :
       \E sts \in [1..n -> ScanStatuses], iss \in [1..n -> IssueLists] :
          scanResults = [i \in 1..n |->
                            ScanDiagnosis(i, sts[i], iss[i])]
    /\ scanOutput = <<>>
    /\ filterDone = FALSE

\* The step of runScan between scanPods and the output.
Filter ==
    /\ ~filterDone
    /\ scanOutput' = IF onlyUnhealthy THEN FilterUnhealthy(scanResults, 1)
                     ELSE scanResults
    /\ filterDone' = TRUE
    /\ UNCHANGED <<onlyUnhealthy, scanResults>>

(***************************************************************************)
(* The TUI Model (internal/tui/model.go)                                   *)
(***************************************************************************)
\* Text is a sequence of characters.
ToLowerChar(c) ==
    CASE c = "A" -> "a" [] c = "B" -> "b" [] c = "C" -> "c" [] c = "D" -> "d"
      [] c = "F" -> "f" [] c = "N" -> "n" [] c = "P" -> "p" [] c = "R" -> "r"
      [] OTHER -> c

\* strings.ToLower(s)
ToLower(s) == [i \in 1..Len(s) |-> ToLowerChar(s[i])]

\* strings.Contains(s, substr)
Contains(s, substr) ==
    \E i \in 0..(Len(s) - Len(substr)) :
        \A j \in 1..Len(substr) : s[i + j] = substr[j]

\* PodItem, with the fields the Model reads
PodItem(name, st, node) == [Name |-> name, Status |-> st, Node |-> node]

PodApi == PodItem(<<"a", "p", "i">>, <<"R", "u", "n", "n", "i", "n", "g">>, <<"n", "1">>)
PodDB == PodItem(<<"D", "B">>, <<"P", "e", "n", "d", "i", "n", "g">>, <<>>)
PodCA == PodItem(<<"C", "A">>, <<"F", "a", "i", "l", "e", "d">>, <<"m", "2">>)

\* The pod lists ListPods may answer with.
PodLists == {<<>>, <<PodCA, PodDB>>, <<PodApi, PodDB, PodCA>>}

\* The namespace lists GetNamespaces may answer with.
NamespaceLists == {<<>>, <<"default">>, <<"default", "kube-system">>}

\* The characters typed into the filter input.
FilterChars == {"a", "N"}

\* The keys of the help lines: navigation, enter, /, esc, r, q; and the keys
\* of the filter input.
Keys ==
    {"q", "/", "esc", "up", "down", "pgup", "pgdown", "enter", "r", "backspace"}
    \cup FilterChars

\* The window heights of the WindowSizeMsg.
Heights == {24, 12}

TuiIdle ==
    /\ mView = "" /\ mNamespaces = <<>> /\ mPods = <<>> /\ mFilteredPods = <<>>
    /\ mSelectedNS = "" /\ mSelectedPod = <<>> /\ mDiagnosis = <<>>
    /\ mErr = FALSE /\ mLoading = FALSE /\ mCursor = 0 /\ mFilter = <<>>
    /\ mFiltering = FALSE /\ mFilterInput = <<>> /\ mHeight = 0
    /\ mCmds = {} /\ mLastKey = "" /\ mQuit = FALSE

\* NewModel and Init: the loading view, and loadNamespaces running.
TuiInit ==
    /\ mView = "ViewLoading"
    /\ mNamespaces = <<>> /\ mPods = <<>> /\ mFilteredPods = <<>>
    /\ mSelectedNS = "" /\ mSelectedPod = <<>> /\ mDiagnosis = <<>>
    /\ mErr = FALSE /\ mLoading = FALSE /\ mCursor = 0 /\ mFilter = <<>>
    /\ mFiltering = FALSE /\ mFilterInput = <<>> /\ mHeight = 24
    /\ mCmds = {"loadNamespaces"} /\ mLastKey = "" /\ mQuit = FALSE

\* The pods applyFilter keeps for a non-empty filter.
MatchingPods(pods, text) ==
    SelectSeq(pods, LAMBDA item :
        \/ Contains(ToLower(item.Name), ToLower(text))
        \/ Contains(ToLower(item.Status), ToLower(text))
        \/ Contains(ToLower(item.Node), ToLower(text)))

\* applyFilter: m.filteredPods after it, for the filter text
applyFilterPods(text) == IF text = <<>> THEN mPods ELSE MatchingPods(mPods, text)

\* applyFilter: m.cursor after it; the empty filter returns before the reset
applyFilterCursor(text) == IF text = <<>> THEN mCursor ELSE 0

\* moveCursor without its clamps
moveCursorUnclamped(delta) == mCursor + delta

\* moveCursor: m.cursor after a move by delta
moveCursor(delta) ==
    LET maxItems == IF mView = "ViewNamespaceList" THEN Len(mNamespaces)
                    ELSE Len(mFilteredPods)
        moved == mCursor + delta
        low == IF moved < 0 THEN 0 ELSE moved
        high == IF low >= maxItems THEN maxItems - 1 ELSE low
    IN  IF mView \notin {"ViewNamespaceList", "ViewPodList"} THEN mCursor
        ELSE IF high < 0 THEN 0 ELSE high

\* m.filterInput.Update(msg): a character is appended, backspace removes
\* the last one, any other key leaves the value.
InputAfter(k) ==
    IF k \in FilterChars THEN Append(mFilterInput, k)
    ELSE IF k = "backspace" /\ mFilterInput # <<>>
         THEN SubSeq(mFilterInput, 1, Len(mFilterInput) - 1)
         ELSE mFilterInput

\* handleFilterInput
handleFilterInput(k) ==
    /\ CASE k = "esc" ->
              /\ mFiltering' = FALSE
              /\ mFilter' = <<>>
              /\ mFilterInput' = <<>>
              /\ mFilteredPods' = mPods
              /\ mCursor' = 0
         [] k = "enter" ->
              /\ mFiltering' = FALSE
              /\ mFilter' = mFilterInput
              /\ mFilteredPods' = applyFilterPods(mFilterInput)
              /\ mCursor' = applyFilterCursor(mFilterInput)
              /\ UNCHANGED mFilterInput
         [] OTHER ->
              /\ mFilterInput' = InputAfter(k)
              /\ mFilter' = InputAfter(k)
              /\ mFilteredPods' = applyFilterPods(InputAfter(k))
              /\ mCursor' = applyFilterCursor(InputAfter(k))
              /\ UNCHANGED mFiltering
    /\ UNCHANGED <<mView, mNamespaces, mPods, mSelectedNS, mSelectedPod,
                   mDiagnosis, mErr, mLoading, mCmds, mQuit>>

\* handleBack
handleBack ==
    /\ CASE mView = "ViewPodList" ->
              /\ mView' = "ViewNamespaceList"
              /\ mCursor' = 0
              /\ mFilter' = <<>>
              /\ mFilterInput' = <<>>
         [] mView = "ViewDiagnosis" ->
              /\ mView' = "ViewPodList"
              /\ mCursor' = 0
              /\ UNCHANGED <<mFilter, mFilterInput>>
         [] OTHER -> UNCHANGED <<mView, mCursor, mFilter, mFilterInput>>
    /\ UNCHANGED <<mNamespaces, mPods, mFilteredPods, mSelectedNS, mSelectedPod,
                   mDiagnosis, mErr, mLoading, mFiltering, mCmds, mQuit>>

\* handleEnter
handleEnter ==
    /\ CASE mView = "ViewNamespaceList" /\ mCursor < Len(mNamespaces) ->
              /\ mSelectedNS' = mNamespaces[mCursor + 1]
              /\ mLoading' = TRUE
              /\ mView' = "ViewLoading"
              /\ mCmds' = mCmds \cup {"loadPods"}
              /\ UNCHANGED mSelectedPod
         [] mView = "ViewPodList" /\ mCursor < Len(mFilteredPods) ->
              /\ mSelectedPod' = mFilteredPods[mCursor + 1].Name
              /\ mLoading' = TRUE
              /\ mView' = "ViewLoading"
              /\ mCmds' = mCmds \cup {"runDiagnosis"}
              /\ UNCHANGED mSelectedNS
         [] OTHER ->
              UNCHANGED <<mSelectedNS, mSelectedPod, mLoading, mView, mCmds>>
    /\ UNCHANGED <<mNamespaces, mPods, mFilteredPods, mDiagnosis, mErr, mCursor,
                   mFilter, mFiltering, mFilterInput, mQuit>>

\* The command handleRefresh starts in the view, "" if none.
RefreshCommand(v) ==
    CASE v = "ViewNamespaceList" -> "loadNamespaces"
      [] v = "ViewPodList" -> "loadPods"
      [] v = "ViewDiagnosis" -> "runDiagnosis"
      [] OTHER -> ""

\* handleRefresh
handleRefresh ==
    /\ IF RefreshCommand(mView) # ""
       THEN /\ mLoading' = TRUE
            /\ mView' = "ViewLoading"
            /\ mCmds' = mCmds \cup {RefreshCommand(mView)}
       ELSE UNCHANGED <<mLoading, mView, mCmds>>
    /\ UNCHANGED <<mNamespaces, mPods, mFilteredPods, mSelectedNS, mSelectedPod,
                   mDiagnosis, mErr, mCursor, mFilter, mFiltering, mFilterInput,
                   mQuit>>

\* handleKeyPress
handleKeyPress(k) ==
    CASE k = "q" ->
            /\ mQuit' = TRUE
            /\ UNCHANGED <<mView, mNamespaces, mPods, mFilteredPods, mSelectedNS,
                           mSelectedPod, mDiagnosis, mErr, mLoading, mCursor,
                           mFilter, mFiltering, mFilterInput, mCmds>>
      [] k = "/" ->
            /\ mFiltering' = (mFiltering \/ mView = "ViewPodList")
            /\ UNCHANGED <<mView, mNamespaces, mPods, mFilteredPods, mSelectedNS,
                           mSelectedPod, mDiagnosis, mErr, mLoading, mCursor,
                           mFilter, mFilterInput, mCmds, mQuit>>
      [] k = "esc" -> handleBack
      [] k \in {"up", "down", "pgup", "pgdown"} ->
            /\ mCursor' = moveCursor(CASE k = "up" -> -1 [] k = "down" -> 1
                                       [] k = "pgup" -> -10 [] OTHER -> 10)
            /\ UNCHANGED <<mView, mNamespaces, mPods, mFilteredPods, mSelectedNS,
                           mSelectedPod, mDiagnosis, mErr, mLoading, mFilter,
                           mFiltering, mFilterInput, mCmds, mQuit>>
      [] k = "enter" -> handleEnter
      [] k = "r" -> handleRefresh
      [] OTHER ->
            UNCHANGED <<mView, mNamespaces, mPods, mFilteredPods, mSelectedNS,
                        mSelectedPod, mDiagnosis, mErr, mLoading, mCursor,
                        mFilter, mFiltering, mFilterInput, mCmds, mQuit>>

\* Update(tea.KeyMsg); the filter input takes up to MaxFilterLen characters
\* in the model.
KeyMsg(k) ==
    /\ ~mQuit
    /\ k \in FilterChars /\ mFiltering => Len(mFilterInput) < MaxFilterLen
    /\ IF mFiltering THEN handleFilterInput(k) ELSE handleKeyPress(k)
    /\ mLastKey' = k
    /\ UNCHANGED mHeight

\* Update(tea.WindowSizeMsg)
WindowSizeMsg(h) ==
    /\ ~mQuit
    /\ mHeight' = h
    /\ mLastKey' = ""
    /\ UNCHANGED <<mView, mNamespaces, mPods, mFilteredPods, mSelectedNS,
                   mSelectedPod, mDiagnosis, mErr, mLoading, mCursor, mFilter,
                   mFiltering, mFilterInput, mCmds, mQuit>>

\* Update(namespacesLoadedMsg): loadNamespaces has finished, ok or not.
NamespacesLoadedMsg(ok, namespaces) ==
    /\ ~mQuit
    /\ "loadNamespaces" \in mCmds
    /\ mCmds' = mCmds \ {"loadNamespaces"}
    /\ mLoading' = FALSE
    /\ IF ~ok
       THEN /\ mErr' = TRUE
            /\ UNCHANGED <<mNamespaces, mView, mCursor>>
       ELSE /\ mNamespaces' = namespaces
            /\ mView' = "ViewNamespaceList"
            /\ mCursor' = 0
            /\ UNCHANGED mErr
    /\ mLastKey' = ""
    /\ UNCHANGED <<mPods, mFilteredPods, mSelectedNS, mSelectedPod, mDiagnosis,
                   mFilter, mFiltering, mFilterInput, mHeight, mQuit>>

\* Update(podsLoadedMsg): loadPods has finished, ok or not.
PodsLoadedMsg(ok, pods) ==
    /\ ~mQuit
    /\ "loadPods" \in mCmds
    /\ mCmds' = mCmds \ {"loadPods"}
    /\ mLoading' = FALSE
    /\ IF ~ok
       THEN /\ mErr' = TRUE
            /\ UNCHANGED <<mPods, mFilteredPods, mView, mCursor>>
       ELSE /\ mPods' = pods
            /\ mFilteredPods' = pods
            /\ mView' = "ViewPodList"
            /\ mCursor' = 0
            /\ UNCHANGED mErr
    /\ mLastKey' = ""
    /\ UNCHANGED <<mNamespaces, mSelectedNS, mSelectedPod, mDiagnosis, mFilter,
                   mFiltering, mFilterInput, mHeight, mQuit>>

\* Update(diagnosisCompleteMsg): runDiagnosis has finished, ok or not.
DiagnosisCompleteMsg(ok) ==
    /\ ~mQuit
    /\ "runDiagnosis" \in mCmds
    /\ mCmds' = mCmds \ {"runDiagnosis"}
    /\ mLoading' = FALSE
    /\ IF ~ok
       THEN /\ mErr' = TRUE
            /\ UNCHANGED <<mDiagnosis, mView>>
       ELSE /\ mDiagnosis' = <<mSelectedPod>>
            /\ mView' = "ViewDiagnosis"
            /\ UNCHANGED mErr
    /\ mLastKey' = ""
    /\ UNCHANGED <<mNamespaces, mPods, mFilteredPods, mSelectedNS, mSelectedPod,
                   mCursor, mFilter, mFiltering, mFilterInput, mHeight, mQuit>>

\* View(): the screen that is rendered
Screen == IF mErr THEN "Error" ELSE mView

(***************************************************************************)
(* The specifications.  Each one runs one part of the program; the         *)
(* variables of the other parts keep their idle values.                    *)
(***************************************************************************)
StatusIdle == pod = <<>> /\ status = "" /\ classified = FALSE

RecIdle == recIssues = <<>> /\ recOut = <<>> /\ recDone = FALSE

InitScan == ScanInit /\ StatusIdle /\ RecIdle /\ DiagIdle /\ LogIdle /\ FilterIdle /\ TuiIdle

ScanNext ==
    \/ CoordAdd /\ UNCHANGED <<statusVars, recVars, diagVars, logVars, filterVars, tuiVars>>
    \/ CoordAcquire /\ UNCHANGED <<statusVars, recVars, diagVars, logVars, filterVars, tuiVars>>
    \/ CoordGo /\ UNCHANGED <<statusVars, recVars, diagVars, logVars, filterVars, tuiVars>>
    \/ CoordWait /\ UNCHANGED <<statusVars, recVars, diagVars, logVars, filterVars, tuiVars>>
    \/ \E p \in PodRefs : WorkerCallDiagnose(p) /\ UNCHANGED <<statusVars, recVars, diagVars, logVars, filterVars, tuiVars>>
    \/ \E p \in PodRefs : WorkerDiagnoseReturn(p) /\ UNCHANGED <<statusVars, recVars, diagVars, logVars, filterVars, tuiVars>>
    \/ \E p \in PodRefs : WorkerLock(p) /\ UNCHANGED <<statusVars, recVars, diagVars, logVars, filterVars, tuiVars>>
    \/ \E p \in PodRefs : WorkerAppendRead(p) /\ UNCHANGED <<statusVars, recVars, diagVars, logVars, filterVars, tuiVars>>
    \/ \E p \in PodRefs : WorkerAppendWrite(p) /\ UNCHANGED <<statusVars, recVars, diagVars, logVars, filterVars, tuiVars>>
    \/ \E p \in PodRefs : WorkerUnlock(p) /\ UNCHANGED <<statusVars, recVars, diagVars, logVars, filterVars, tuiVars>>
    \/ \E p \in PodRefs : WorkerRelease(p) /\ UNCHANGED <<statusVars, recVars, diagVars, logVars, filterVars, tuiVars>>
    \/ \E p \in PodRefs : WorkerDone(p) /\ UNCHANGED <<statusVars, recVars, diagVars, logVars, filterVars, tuiVars>>

SpecScan == InitScan /\ [][ScanNext]_vars

\* The steps of the coordinator goroutine and of the goroutine of pod p.
CoordStep ==
    (CoordAdd \/ CoordAcquire \/ CoordGo \/ CoordWait) /\ UNCHANGED <<statusVars, recVars, diagVars, logVars, filterVars, tuiVars>>

WorkerStep(p) ==
    /\ p \in 1..nPods
    /\ \/ WorkerCallDiagnose(p) \/ WorkerDiagnoseReturn(p) \/ WorkerLock(p)
       \/ WorkerAppendRead(p) \/ WorkerAppendWrite(p) \/ WorkerUnlock(p)
       \/ WorkerRelease(p) \/ WorkerDone(p)
    /\ UNCHANGED <<statusVars, recVars, diagVars, logVars, filterVars, tuiVars>>

\* The Go scheduler runs every goroutine that can take a step, and every
\* Diagnose call returns.
ScanFairness ==
    /\ WF_vars(CoordStep)
    /\ \A p \in 1..MaxPods : WF_vars(WorkerStep(p))

SpecScanFair == InitScan /\ [][ScanNext]_vars /\ ScanFairness

InitTimeout == TimeoutInit /\ StatusIdle /\ RecIdle /\ DiagIdle /\ LogIdle /\ FilterIdle /\ TuiIdle

TimeoutNext ==
    \/ ScanNext
    \/ CtxExpire /\ UNCHANGED <<statusVars, recVars, diagVars, logVars, filterVars, tuiVars>>

SpecTimeout == InitTimeout /\ [][TimeoutNext]_vars

InitStatus == StatusInit /\ ScanIdle /\ RecIdle /\ DiagIdle /\ LogIdle /\ FilterIdle /\ TuiIdle

StatusNext == Classify /\ UNCHANGED <<scanVars, recVars, diagVars, logVars, filterVars, tuiVars>>

SpecStatus == InitStatus /\ [][StatusNext]_vars

InitRec == RecInit /\ ScanIdle /\ StatusIdle /\ DiagIdle /\ LogIdle /\ FilterIdle /\ TuiIdle

RecNext == Generate /\ UNCHANGED <<scanVars, statusVars, diagVars, logVars, filterVars, tuiVars>>

SpecRec == InitRec /\ [][RecNext]_vars

InitDiag == DiagInit /\ ScanIdle /\ StatusIdle /\ RecIdle /\ LogIdle /\ FilterIdle /\ TuiIdle

DiagNext ==
    \/ DiagGetPod /\ UNCHANGED <<scanVars, statusVars, recVars, logVars, filterVars, tuiVars>>
    \/ DiagAnalyze /\ UNCHANGED <<scanVars, statusVars, recVars, logVars, filterVars, tuiVars>>
    \/ DiagGetEvents /\ UNCHANGED <<scanVars, statusVars, recVars, logVars, filterVars, tuiVars>>
    \/ DiagGetNode /\ UNCHANGED <<scanVars, statusVars, recVars, logVars, filterVars, tuiVars>>

SpecDiag == InitDiag /\ [][DiagNext]_vars

InitRecFull == RecFullInit /\ ScanIdle /\ StatusIdle /\ DiagIdle /\ LogIdle /\ FilterIdle /\ TuiIdle

SpecRecFull == InitRecFull /\ [][RecNext]_vars

InitTwice == TwiceInit /\ ScanIdle /\ StatusIdle /\ RecIdle /\ LogIdle /\ FilterIdle /\ TuiIdle

TwiceNext ==
    \/ DiagNext /\ (run = 2 => SameAnswers(calls'))
    \/ DiagnoseAgain /\ UNCHANGED <<scanVars, statusVars, recVars, logVars, filterVars, tuiVars>>

SpecTwice == InitTwice /\ [][TwiceNext]_vars

InitMatch == MatchInit /\ ScanIdle /\ StatusIdle /\ RecIdle /\ DiagIdle /\ FilterIdle /\ TuiIdle

LogNext == LogAnalyze /\ UNCHANGED <<scanVars, statusVars, recVars, diagVars, filterVars, tuiVars>>

SpecMatch == InitMatch /\ [][LogNext]_vars

InitLogs == LogsInit /\ ScanIdle /\ StatusIdle /\ RecIdle /\ DiagIdle /\ FilterIdle /\ TuiIdle

SpecLogs == InitLogs /\ [][LogNext]_vars

InitTruncate == TruncateInit /\ ScanIdle /\ StatusIdle /\ RecIdle /\ DiagIdle /\ FilterIdle /\ TuiIdle

TruncateNext == Truncate /\ UNCHANGED <<scanVars, statusVars, recVars, diagVars, filterVars, tuiVars>>

SpecTruncate == InitTruncate /\ [][TruncateNext]_vars

InitConfig == ConfigInit /\ ScanIdle /\ StatusIdle /\ RecIdle /\ LogIdle /\ FilterIdle /\ TuiIdle

SpecConfig == InitConfig /\ [][DiagNext]_vars

InitContainers == ContainersInit /\ ScanIdle /\ StatusIdle /\ RecIdle /\ LogIdle /\ FilterIdle /\ TuiIdle

SpecContainers == InitContainers /\ [][DiagNext]_vars

InitEvents == EventsInit /\ ScanIdle /\ StatusIdle /\ RecIdle /\ LogIdle /\ FilterIdle /\ TuiIdle

SpecEvents == InitEvents /\ [][DiagNext]_vars

InitResources == ResourcesInit /\ ScanIdle /\ StatusIdle /\ RecIdle /\ LogIdle /\ FilterIdle /\ TuiIdle

SpecResources == InitResources /\ [][DiagNext]_vars

InitProbes == ProbesInit /\ ScanIdle /\ StatusIdle /\ RecIdle /\ LogIdle /\ FilterIdle /\ TuiIdle

SpecProbes == InitProbes /\ [][DiagNext]_vars

InitFilter == FilterInit /\ ScanIdle /\ StatusIdle /\ RecIdle /\ DiagIdle /\ LogIdle /\ TuiIdle

FilterNext == Filter /\ UNCHANGED <<scanVars, statusVars, recVars, diagVars, logVars, tuiVars>>

SpecFilter == InitFilter /\ [][FilterNext]_vars

InitTui == TuiInit /\ ScanIdle /\ StatusIdle /\ RecIdle /\ DiagIdle /\ LogIdle /\ FilterIdle

TuiNext ==
    \/ \E k \in Keys : KeyMsg(k) /\ UNCHANGED <<scanVars, statusVars, recVars, diagVars, logVars, filterVars>>
    \/ \E h \in Heights : WindowSizeMsg(h) /\ UNCHANGED <<scanVars, statusVars, recVars, diagVars, logVars, filterVars>>
    \/ \E ok \in BOOLEAN, l \in NamespaceLists : NamespacesLoadedMsg(ok, l) /\ UNCHANGED <<scanVars, statusVars, recVars, diagVars, logVars, filterVars>>
    \/ \E ok \in BOOLEAN, l \in PodLists : PodsLoadedMsg(ok, l) /\ UNCHANGED <<scanVars, statusVars, recVars, diagVars, logVars, filterVars>>
    \/ \E ok \in BOOLEAN : DiagnosisCompleteMsg(ok) /\ UNCHANGED <<scanVars, statusVars, recVars, diagVars, logVars, filterVars>>

SpecTui == InitTui /\ [][TuiNext]_vars

(***************************************************************************)
(* Claims about scanPods (checked under SpecScan)                          *)
(***************************************************************************)
InFlight == {p \in PodRefs : wpc[p] = "diagnose"}

InCritical == {p \in PodRefs : wpc[p] \in {"read", "write", "unlock"}}

Succeeded == {p \in PodRefs : outcome[p] = "ok"}

\* C7: at every moment of a scan with a concurrency limit of at least 1, the
\* number of Diagnose calls that have started and not yet returned is at most
\* the concurrency limit.
C7_InFlightBounded ==
    concurrency >= 1 => Cardinality(InFlight) <= concurrency

\* The limit is reached while more pod references wait for a token.
C7_Witness ==
    /\ concurrency >= 2
    /\ Cardinality(InFlight) = concurrency
    /\ coord = "acquire"
    /\ idx < nPods

\* C8: the list scanPods returns holds exactly one entry for each pod
\* reference whose Diagnose call succeeded and none for a reference whose call
\* failed, so its length is the number of successes.
C8_ResultExact ==
    coord = "returned" =>
        /\ \A p \in PodRefs :
              Count(returned, p) = (IF outcome[p] = "ok" THEN 1 ELSE 0)
        /\ Len(returned) = Cardinality(Succeeded)

\* A scan returned with one failed reference and two successes that were
\* appended out of submission order.
C8_Witness ==
    /\ coord = "returned"
    /\ \E p \in PodRefs : outcome[p] = "err"
    /\ Len(returned) >= 2
    /\ returned[1] > returned[2]

\* C9: no two goroutines are at once between mu.Lock() and mu.Unlock(), and
\* every step that changes the shared slice is the store of the goroutine
\* that holds the mutex.
C9_AppendExclusive ==
    /\ [](Cardinality(InCritical) <= 1)
    /\ [][diagnoses' # diagnoses =>
             \E p \in PodRefs : mu = p /\ wpc[p] = "write" /\ wpc'[p] = "unlock"]_vars

\* One goroutine is about to store the slice while another waits for the mutex.
C9_Witness ==
    \E p, q \in PodRefs :
        /\ p # q
        /\ wpc[p] = "write" /\ mu = p
        /\ wpc[q] = "lock"

\* C10: scanPods has returned only when every pod reference was handed to a
\* goroutine and every goroutine has finished, and the list it returned is
\* the final content of the shared slice.
C10_ReturnAfterAll ==
    coord = "returned" =>
        /\ idx = nPods
        /\ \A p \in PodRefs : wpc[p] = "exit"
        /\ Cardinality(InFlight) = 0
        /\ returned = diagnoses

\* A scan of several pod references has returned a non-empty list.
C10_Witness ==
    /\ coord = "returned"
    /\ nPods >= 2
    /\ Len(returned) >= 1
    /\ \E p \in PodRefs : outcome[p] = "err"

(***************************************************************************)
(* C22: termination of scanPods                                            *)
(***************************************************************************)
\* A Diagnose call was started for every pod reference.
AllDiagnoseStarted ==
    \A p \in 1..nPods : wpc[p] \notin {"unborn", "start"}

NoDiagnoseStarted ==
    \A p \in 1..nPods : wpc[p] \in {"unborn", "start"}

\* C22: with a concurrency limit of at least 1 scanPods eventually returns,
\* having started a Diagnose call for every reference; with a limit of 0 and
\* a non-empty list it starts no Diagnose call and never returns.
C22_ReturnsIffLimitPositive ==
    /\ concurrency >= 1 => <>(coord = "returned" /\ AllDiagnoseStarted)
    /\ (concurrency = 0 /\ nPods > 0)
          => [](coord # "returned" /\ NoDiagnoseStarted)

\* scanPods has returned after more diagnoses than the limit allows at once,
\* one of which failed.
C22_Witness ==
    /\ coord = "returned"
    /\ concurrency >= 1 /\ nPods > concurrency
    /\ AllDiagnoseStarted
    /\ \E p \in 1..nPods : outcome[p] = "err"
    /\ returned # <<>>

(***************************************************************************)
(* Claims about detectPodStatus (checked under SpecStatus)                 *)
(***************************************************************************)
WaitingCritical(cs) ==
    cs.State.Kind = "waiting" /\ cs.State.Reason \in CriticalWaitingReasons

LastOOMKilled(cs) ==
    cs.LastTerminationState.Kind = "terminated"
    /\ cs.LastTerminationState.Reason = "OOMKilled"

\* C2: for every pod that is not marked for deletion and has at least one
\* container waiting with one of the five critical reasons, the classifier
\* returns the label of the waiting reason of one of its containers, and so
\* never OOMKilled, whatever the order of the containers.
C2_WaitingBeatsOOMPodWide ==
    (classified /\ ~pod.DeletionTimestamp
     /\ \E i \in DOMAIN pod.ContainerStatuses :
            WaitingCritical(pod.ContainerStatuses[i]))
    => \E i \in DOMAIN pod.ContainerStatuses :
            /\ WaitingCritical(pod.ContainerStatuses[i])
            /\ status = WaitingLabel(pod.ContainerStatuses[i].State.Reason)

\* C3 as stated: a pod, not marked for deletion, with exactly one container
\* that waits in CrashLoopBackOff and was last terminated as OOMKilled is
\* classified OOMKilled.
C3_CrashLoopOOMPod ==
    /\ ~pod.DeletionTimestamp
    /\ Len(pod.ContainerStatuses) = 1
    /\ pod.ContainerStatuses[1].State = WaitingState("CrashLoopBackOff")
    /\ LastOOMKilled(pod.ContainerStatuses[1])

C3_Original_ClassifiedOOMKilled ==
    (classified /\ C3_CrashLoopOOMPod) => status = "OOMKilled"

\* C3 as amended: such a pod is classified CrashLoopBackOff (within one
\* container the waiting reason is examined before the last termination).
C3_ClassifiedCrashLoop ==
    (classified /\ C3_CrashLoopOOMPod) => status = "CrashLoopBackOff"

C3_Witness == classified /\ C3_CrashLoopOOMPod /\ pod.Phase = "Running"

\* C4: a pod marked for deletion is classified Terminating whatever its
\* containers and phase are; the classifier always returns one of its labels;
\* and it returns Unknown only for a pod that is not being deleted, has no
\* container matching the waiting or OOMKilled rules and whose phase is none
\* of Pending, Failed, Running, Succeeded.
C4_TerminatingFirstUnknownLast ==
    classified =>
        /\ status \in StatusLabels
        /\ pod.DeletionTimestamp => status = "Terminating"
        /\ status = "Unknown" =>
              /\ ~pod.DeletionTimestamp
              /\ \A i \in DOMAIN pod.ContainerStatuses :
                    /\ ~WaitingCritical(pod.ContainerStatuses[i])
                    /\ ~LastOOMKilled(pod.ContainerStatuses[i])
              /\ pod.Phase \notin {"Pending", "Failed", "Running", "Succeeded"}

\* A pod being deleted whose containers would otherwise decide the label.
C4_Witness ==
    /\ classified
    /\ pod.DeletionTimestamp
    /\ status = "Terminating"
    /\ \E i \in DOMAIN pod.ContainerStatuses :
          WaitingCritical(pod.ContainerStatuses[i])
    /\ \E i \in DOMAIN pod.ContainerStatuses :
          LastOOMKilled(pod.ContainerStatuses[i])

(***************************************************************************)
(* Claims about generateRecommendations (checked under SpecRec)            *)
(***************************************************************************)
NoTwoWithSameTitle(recs) ==
    \A i, j \in DOMAIN recs : recs[i].Title = recs[j].Title => i = j

NonDecreasingPriority(recs) ==
    \A i, j \in DOMAIN recs : i < j => recs[i].Priority <= recs[j].Priority

\* C1: for every sequence of issues, the list generateRecommendations returns
\* holds no two recommendations with the same title and is ordered by
\* non-decreasing priority.
C1_UniqueTitlesSorted ==
    recDone => NoTwoWithSameTitle(recOut) /\ NonDecreasingPriority(recOut)

\* Two issues yield the same title, and the recommendations were accepted in
\* an order that is not the order of their priorities.
C1_Witness ==
    /\ recDone
    /\ \E i, j \in DOMAIN recIssues :
          /\ i < j
          /\ Range(getRecommendationsForIssue(recIssues[i]))
                \cap Range(getRecommendationsForIssue(recIssues[j])) # {}
    /\ ~NonDecreasingPriority(AcceptedRecommendations(recIssues))
    /\ Len(recOut) >= 3

\* Positions of the recommendation with a title in a list.
PositionOf(recs, title) == CHOOSE i \in DOMAIN recs : recs[i].Title = title

\* Two recommendations of equal priority are in recs in the order they have
\* in accepted.
KeepsAcceptanceOrder(recs, accepted) ==
    \A i, j \in DOMAIN accepted :
        (i < j /\ accepted[i].Priority = accepted[j].Priority) =>
            PositionOf(recs, accepted[i].Title)
                < PositionOf(recs, accepted[j].Title)

\* C13: the returned recommendation list is the stable sort of the accepted
\* recommendations: recommendations of equal priority keep the order in
\* which they were accepted, for up to all 13 titles of the engine.
C13_StableSort ==
    recDone => KeepsAcceptanceOrder(recOut, AcceptedRecommendations(recIssues))

(***************************************************************************)
(* Claims about PodAnalyzer.Diagnose                                       *)
(***************************************************************************)
InvokedNames == [i \in DOMAIN invoked |-> invoked[i].Name]

\* The issue lists of the analyzers that succeeded, concatenated in the
\* order the analyzers were invoked.
IssuesOfSucceeded ==
    LET OfAnalyzer(a) == IF a.Err THEN <<>> ELSE a.Issues
    IN  FlatMap(OfAnalyzer, invoked)

LoopFinished == dpc \in {"events", "node", "done"}

\* C5: once GetPod succeeded, Diagnose invokes the six analyzers in the
\* order status, events, logs, node, resources, probes whichever of them
\* fail (during the loop the analyzers invoked so far are a prefix of that
\* order, after it all six were invoked), and the issue list of the
\* Diagnosis is the concatenation, in that order, of the issue lists of the
\* analyzers that succeeded.
C5_AllAnalyzersInOrder ==
    /\ dpc = "analyze" => InvokedNames = SubSeq(Analyzers, 1, ai - 1)
    /\ LoopFinished => InvokedNames = Analyzers
    /\ dpc \in {"analyze", "events", "node", "done"} =>
          diagnosis.Issues = IssuesOfSucceeded

\* A finished diagnosis in which the events analyzer and the node analyzer
\* failed, and analyzers before, between and after them contributed issues.
C5_Witness ==
    /\ dpc = "done"
    /\ Len(invoked) = Len(Analyzers)
    /\ invoked[2].Err /\ invoked[4].Err
    /\ invoked[1].Issues # <<>> /\ invoked[3].Issues # <<>>
    /\ invoked[5].Issues # <<>> /\ invoked[6].Issues # <<>>
    /\ diagnosis.Issues # <<>>

\* The calls Diagnose itself makes, as opposed to those of the analyzers.
PipelineCalls(op) ==
    SelectSeq(calls, LAMBDA c : c.By = "Diagnose" /\ c.Op = op)

GetPodFailed == calls # <<>> /\ ~calls[1].Ok

GetPodSucceeded == calls # <<>> /\ calls[1].Ok

PipelineFetchFailed(op) ==
    PipelineCalls(op) # <<>> /\ ~PipelineCalls(op)[1].Ok

\* C6: Diagnose returns a failure exactly when GetPod fails, and then it
\* made no other Signal Source call and ran no analyzer; when GetPod
\* succeeds it goes on to return a Diagnosis whatever the log, event and
\* node-health calls answer (until it has returned, it is at a step that
\* every answer lets it take), with empty events when the event fetch of
\* Diagnose itself failed, and with no node when the pod has no node name
\* or the node-health fetch of Diagnose itself failed.
C6_FailureOnlyFromGetPod ==
    /\ calls # <<>> => calls[1].Op = "GetPod" /\ calls[1].By = "Diagnose"
    /\ dpc = "failed" <=> GetPodFailed
    /\ dpc = "failed" =>
          /\ Len(calls) = 1
          /\ invoked = <<>>
          /\ diagnosis = NilDiagnosis
    /\ GetPodSucceeded /\ dpc # "done" =>
          \/ dpc = "analyze" /\ ai \in 1..Len(Analyzers)
          \/ dpc \in {"events", "node"}
    /\ dpc = "done" =>
          /\ GetPodSucceeded
          /\ PipelineFetchFailed("GetPodEvents") => diagnosis.Events = <<>>
          /\ ~PipelineFetchFailed("GetPodEvents") =>
                diagnosis.Events = world.Events
          /\ (world.Pod.NodeName = "" \/ PipelineFetchFailed("GetNodeHealth"))
                => diagnosis.Node = <<>>
          /\ (world.Pod.NodeName # "" /\ ~PipelineFetchFailed("GetNodeHealth"))
                => diagnosis.Node = <<GetNodeHealth(world.Pod.NodeName,
                                                    world.NodeConds)>>

\* A Diagnosis returned although a log fetch, the event fetch and the
\* node-health fetch of Diagnose all failed for a pod that has a node and
\* events.
C6_Witness ==
    /\ dpc = "done"
    /\ world.Pod.NodeName # ""
    /\ world.Events # <<>>
    /\ PipelineFetchFailed("GetPodEvents")
    /\ PipelineFetchFailed("GetNodeHealth")
    /\ \E i \in DOMAIN calls : calls[i].Op = "GetPodLogs" /\ ~calls[i].Ok
    /\ diagnosis.Events = <<>>
    /\ diagnosis.Node = <<>>

(***************************************************************************)
(* Claims about a repeated Diagnose call (checked under SpecTwice)         *)
(***************************************************************************)
SecondReturned == run = 2 /\ dpc = "done"

\* The diagnosis with its diagnosedAt field blanked.
ExceptDiagnosedAt(d) == [d EXCEPT !.DiagnosedAt = 0]

\* The diagnosis with its diagnosedAt field and the age of its pod blanked.
ExceptClockReadings(d) == [d EXCEPT !.DiagnosedAt = 0, !.Pod.Age = 0]

CrashLoopAfterOOM(p) ==
    /\ Len(p.ContainerStatuses) = 1
    /\ p.ContainerStatuses[1].State = WaitingState("CrashLoopBackOff")
    /\ p.ContainerStatuses[1].LastTerminationState.Kind = "terminated"
    /\ p.ContainerStatuses[1].LastTerminationState.Reason = "OOMKilled"

\* An issue of the severity and category whose title ends in the words.
HasIssue(d, severity, category, ending) ==
    \E i \in 1..Len(d.Issues) :
        /\ d.Issues[i].Severity = severity
        /\ d.Issues[i].Category = category
        /\ d.Issues[i].Title
              = <<"Container ", d.Pod.Containers[1].Name, ending>>

\* The recommendation with the title occurs once, with the priority.
RecommendedOnce(d, title, priority) ==
    /\ Cardinality({i \in 1..Len(d.Recommendations) :
                        d.Recommendations[i].Title = title}) = 1
    /\ \A i \in 1..Len(d.Recommendations) :
          d.Recommendations[i].Title = title
              => d.Recommendations[i].Priority = priority

\* C16: a pod with one container in CrashLoopBackOff whose last termination
\* was OOMKilled gets a critical container CrashLoopBackOff issue, a critical
\* resources OOMKilled issue, and "Check container logs" and "Increase memory
\* limit" each once with priority 1, whatever the other analyzers add.
C16_CrashLoopOOM ==
    (dpc = "done" /\ diagnosis # NilDiagnosis /\ CrashLoopAfterOOM(world.Pod)) =>
        /\ HasIssue(diagnosis, "critical", "container", " in CrashLoopBackOff")
        /\ HasIssue(diagnosis, "critical", "resources", " was OOMKilled")
        /\ RecommendedOnce(diagnosis, "Check container logs", 1)
        /\ RecommendedOnce(diagnosis, "Increase memory limit", 1)

\* Such a pod diagnosed with issues of the events, probe and log analyzers
\* next to those of the status analyzer.
C16_Witness ==
    /\ dpc = "done" /\ diagnosis # NilDiagnosis
    /\ CrashLoopAfterOOM(world.Pod)
    /\ \E i \in 1..Len(diagnosis.Issues) : diagnosis.Issues[i].Category = "logs"
    /\ \E i \in 1..Len(diagnosis.Issues) : diagnosis.Issues[i].Category = "probes"
    /\ Len(diagnosis.Recommendations) > 2

(***************************************************************************)
(* Claims about the deadline of the scan (checked under SpecTimeout)       *)
(***************************************************************************)
\* C11, as stated: when the deadline passed while diagnoses were running,
\* the coordinator has returned without waiting for them, so at its return
\* one of them has not finished and a result it produces is not in the
\* returned list.
C11_Original_AbandonsOnTimeout ==
    (coord = "returned" /\ atExpiry # {}) =>
        \E p \in atExpiry :
            /\ wpc[p] # "exit"
            /\ Count(returned, p) = 0

\* C11, amended: the coordinator has returned only when every goroutine has
\* finished, also the ones whose Diagnose call was running when the deadline
\* passed; the ctx carrying the deadline is the one every Diagnose call
\* gets, so a call entered after the deadline fails; and every diagnosis
\* that succeeded, also one that was running when the deadline passed, is in
\* the returned list exactly once.
C11_TimeoutIsWaitedOut ==
    /\ coord = "returned" =>
          /\ \A p \in PodRefs : wpc[p] = "exit"
          /\ \A p \in PodRefs :
                Count(returned, p) = (IF outcome[p] = "ok" THEN 1 ELSE 0)
    /\ \A p \in PodRefs :
          (ctxAtCall[p] /\ outcome[p] # "none") => outcome[p] = "err"
    /\ \A p \in PodRefs : ctxAtCall[p] => ctxDone

\* The scan has returned after a deadline that passed while a diagnosis was
\* running; that diagnosis succeeded and is in the list, and another one,
\* entered after the deadline, failed.
C11_Witness ==
    /\ coord = "returned"
    /\ ctxDone
    /\ \E p \in atExpiry :
          /\ outcome[p] = "ok"
          /\ Count(returned, p) = 1
    /\ \E q \in PodRefs :
          /\ ctxAtCall[q]
          /\ outcome[q] = "err"
          /\ Count(returned, q) = 0

(***************************************************************************)
(* Claims about the log analyzer                                           *)
(***************************************************************************)
\* The non-blank lines that one rule matches, in order.
LinesMatching(pattern, lines) ==
    SelectSeq(lines, LAMBDA line : ~IsBlank(line) /\ MatchString(pattern, line))

\* Title, sample and count of the issues: one per rule that matched a line.
OnePerMatchedRule(containerName, lines) ==
    LET OfPattern(pattern) ==
            LET own == LinesMatching(pattern, lines)
            IN  IF own = <<>> THEN <<>>
                ELSE <<[Title |-> <<"[", containerName, "] ", pattern.Title>>,
                        Sample |-> truncateLine(own[1], 200),
                        Count |-> ToString(Len(own))]>>
    IN  FlatMap(OfPattern, Patterns)

\* Title, sample and count of the issues that were emitted.
EmittedPerRule(issues) ==
    [i \in 1..Len(issues) |->
        [Title |-> issues[i].Title,
         Sample |-> issues[i].Details.sample_match,
         Count |-> issues[i].Details.match_count]]

MatchRan == logDone /\ Len(logPod.Containers) = 1 /\ logFetch[1] = "current"

\* C14: for one container's log text the Log analyzer emits exactly one issue
\* per rule that matched at least one non-blank line, in declaration order,
\* each with that rule's first matching line as sample_match and that rule's
\* number of matching lines as match_count.
C14_OneIssuePerMatchedRule ==
    MatchRan =>
        EmittedPerRule(logResult.Issues)
            = OnePerMatchedRule(ContainerNames[1],
                                logTexts[ContainerNames[1]].Current)

\* The GetPodLogs calls the claim allows for the i-th container.
FetchCalls(i) ==
    LET name == logPod.Containers[i].Name
        current == Call("GetPodLogs", <<name, 100, FALSE>>,
                        logFetch[i] = "current", "logs")
        previous == Call("GetPodLogs", <<name, 100, TRUE>>,
                         logFetch[i] = "previous", "logs")
    IN  IF logFetch[i] = "current" THEN <<current>> ELSE <<current, previous>>

\* The issues the i-th container contributes: those of the text that was
\* fetched, none when both fetches failed.
FetchedIssues(i) ==
    LET name == logPod.Containers[i].Name
    IN  CASE logFetch[i] = "current" -> IssuesOfLogs(name, logTexts[name].Current)
          [] logFetch[i] = "previous" -> IssuesOfLogs(name, logTexts[name].Previous)
          [] OTHER -> <<>>

ContainerIndexes == [i \in 1..Len(logPod.Containers) |-> i]

\* C15: per container the current logs (tail 100) are requested first and the
\* previous logs only after that request failed, once; a container whose two
\* requests fail contributes no issue and does not stop the following
\* containers; LogAnalyzer.Analyze never returns a failure.
C15_PreviousOnlyAfterFailure ==
    logDone =>
        /\ ~logResult.Err
        /\ logResult.Calls = FlatMap(FetchCalls, ContainerIndexes)
        /\ logResult.Issues = FlatMap(FetchedIssues, ContainerIndexes)

\* Two containers: both fetches of the first fail, the second is analyzed from
\* its previous logs and yields an issue.
C15_Witness ==
    /\ logDone
    /\ Len(logPod.Containers) >= 2
    /\ logFetch[1] = "none" /\ logFetch[2] = "previous"
    /\ Len(logResult.Calls) >= 4
    /\ \E i \in 1..Len(logResult.Issues) :
          logResult.Issues[i].Details.container = logPod.Containers[2].Name

(***************************************************************************)
(* C19: truncateLine                                                       *)
(***************************************************************************)
\* The number of whole characters among the first n bytes of the line.
WholeChars(line, n) == n \div line.Width

\* The length of a line in characters; the bytes of a character that was cut
\* in the middle count as one character each.
Chars(line) ==
    IF line.Ellipsis
    THEN WholeChars(line, line.Kept) + (line.Kept % line.Width) + 3
    ELSE WholeChars(line, line.Len)

\* The first n characters of the line followed by "...".
FirstCharsAndEllipsis(line, n) ==
    [line EXCEPT !.Len = n * line.Width + 3, !.Kept = n * line.Width,
                 !.Ellipsis = TRUE]

\* C19: truncateLine(line, 200) returns the line unchanged when it has at
\* most 200 characters and otherwise its first 197 characters followed by
\* "..."; the result never has more than 200 characters.
C19_TruncateByCharacters ==
    tlDone =>
        /\ Chars(tlLine) <= 200 => tlOut = tlLine
        /\ Chars(tlLine) > 200 => tlOut = FirstCharsAndEllipsis(tlLine, 197)
        /\ Chars(tlOut) <= 200

(***************************************************************************)
(* Claims about the diagnosis of container configurations                  *)
(***************************************************************************)
Diagnosed == dpc = "done" /\ diagnosis # NilDiagnosis

\* Limits are set, equal to the requests, and above the floors.
LimitsEqualRequests(container) ==
    /\ container.Resources.Limits # <<>>
    /\ container.Resources.Limits = container.Resources.Requests
    /\ \A name \in DOMAIN container.Resources.Limits :
          container.Resources.Limits[name]
              >= (IF name = "memory" THEN MinMemoryMi ELSE MinCPUMilli)

\* The healthy-pod scenario: phase Running and not being deleted, no pod
\* condition False, every container ready and running with no last
\* termination and no restart, limits equal to requests.
HealthyScenario(p) ==
    /\ p.Phase = "Running"
    /\ ~p.DeletionTimestamp
    /\ \A i \in 1..Len(p.Conditions) : p.Conditions[i].Status # "False"
    /\ \A i \in 1..Len(p.ContainerStatuses) : p.ContainerStatuses[i].RestartCount = 0
    /\ \A i \in 1..Len(p.ContainerStatuses) :
          /\ p.ContainerStatuses[i].Ready
          /\ p.ContainerStatuses[i].State = RunningState
          /\ p.ContainerStatuses[i].LastTerminationState = NoState
    /\ \A i \in 1..Len(p.Containers) : LimitsEqualRequests(p.Containers[i])

\* The container has a liveness or a readiness probe, and no probe setting
\* is below or above the thresholds of the probe checks.
ProbesNotFlagged(container) ==
    LET liveness == container.LivenessProbe
        readiness == container.ReadinessProbe
        startup == container.StartupProbe
    IN  /\ liveness.Set \/ readiness.Set
        /\ liveness.Set =>
              /\ ~(liveness.PeriodSeconds > 0 /\ liveness.PeriodSeconds < 5)
              /\ ~(liveness.FailureThreshold > 0 /\ liveness.FailureThreshold < 3)
              /\ ~(liveness.TimeoutSeconds > 0 /\ liveness.TimeoutSeconds < 2)
              /\ startup.Set \/ liveness.InitialDelaySeconds >= 10
        /\ readiness.Set => readiness.InitialDelaySeconds <= 60
        /\ startup.Set =>
              ~(startup.FailureThreshold * startup.PeriodSeconds > 0
                /\ startup.FailureThreshold * startup.PeriodSeconds < 30)

NothingFound ==
    /\ diagnosis.Status = "Healthy"
    /\ diagnosis.Issues = <<>>
    /\ diagnosis.Recommendations = <<>>

\* C17 as stated: every pod of the healthy scenario is diagnosed Healthy with
\* zero issues and zero recommendations, whatever its probe configuration.
C17_Original_AnyProbes ==
    (Diagnosed /\ HealthyScenario(world.Pod)) => NothingFound

\* C17: every pod of the healthy scenario whose containers each have a
\* liveness or readiness probe with no flagged setting is diagnosed Healthy
\* with zero issues and zero recommendations.
C17_HealthyWithSoundProbes ==
    (/\ Diagnosed
     /\ HealthyScenario(world.Pod)
     /\ \A i \in 1..Len(world.Pod.Containers) :
           ProbesNotFlagged(world.Pod.Containers[i]))
        => NothingFound

\* A healthy-scenario pod with a liveness, a readiness and a startup probe,
\* diagnosed after all six analyzers ran.
C17_Witness ==
    /\ Diagnosed
    /\ HealthyScenario(world.Pod)
    /\ ProbesNotFlagged(world.Pod.Containers[1])
    /\ world.Pod.Containers[1].LivenessProbe.Set
    /\ world.Pod.Containers[1].ReadinessProbe.Set
    /\ world.Pod.Containers[1].StartupProbe.Set
    /\ Len(invoked) = Len(Analyzers)
    /\ NothingFound

\* No requests, no limits, neither a liveness nor a readiness probe.
BestEffortNoProbes(container) ==
    /\ container.Resources = NoResources
    /\ ~container.LivenessProbe.Set
    /\ ~container.ReadinessProbe.Set

\* What the Resource and the Probe analyzer returned to Diagnose.
ResourceAndProbeIssues == invoked[5].Issues \o invoked[6].Issues

\* The titles of their issues of the category and severity, in order.
TitlesOf(category, severity) ==
    LET OfIssue(issue) ==
            IF issue.Category = category /\ issue.Severity = severity
            THEN <<issue.Title>> ELSE <<>>
    IN  FlatMap(OfIssue, ResourceAndProbeIssues)

\* The recommendation titled before precedes the one titled after, and they
\* have the priorities.
RecommendedInOrder(before, pb, after, pa) ==
    \E i, j \in 1..Len(diagnosis.Recommendations) :
        /\ i < j
        /\ diagnosis.Recommendations[i] = Recommendation(pb, before)
        /\ diagnosis.Recommendations[j] = Recommendation(pa, after)

BestEffortDiagnosed ==
    /\ Diagnosed
    /\ Len(world.Pod.Containers) = 1
    /\ BestEffortNoProbes(world.Pod.Containers[1])

\* C18 as stated: for a container with no requests, no limits and no liveness
\* or readiness probe, the only resources warning of the Resource and Probe
\* analyzers is the BestEffort QoS one.
C18_Original_OneResourcesWarning ==
    BestEffortDiagnosed =>
        TitlesOf("resources", "warning") = <<<<"BestEffort QoS for ", "app">>>>

\* C18: for such a container the Resource and Probe analyzers emit two
\* resources warnings (No resource limits, BestEffort QoS), one probes info
\* (No health probes), and the recommendations hold "Configure resource
\* requests and limits" (priority 2) before "Add health probes" (priority 3).
C18_BestEffortNoProbes ==
    BestEffortDiagnosed =>
        /\ TitlesOf("resources", "warning")
              = << <<"No resource limits for ", "app">>,
                   <<"BestEffort QoS for ", "app">> >>
        /\ TitlesOf("probes", "info") = << <<"No health probes for ", "app">> >>
        /\ RecommendedInOrder("Configure resource requests and limits", 2,
                              "Add health probes", 3)

\* Such a container, with a startup probe that is reported, diagnosed.
C18_Witness ==
    /\ BestEffortDiagnosed
    /\ world.Pod.Containers[1].StartupProbe.Set
    /\ TitlesOf("probes", "warning") # <<>>
    /\ Len(diagnosis.Recommendations) >= 3

(***************************************************************************)
(* C20: the unhealthy-only filter                                          *)
(***************************************************************************)
\* The positions of the scan results that are not healthy: status other than
\* Healthy, or at least one issue.
UnhealthyPositions ==
    {i \in 1..Len(scanResults) :
        scanResults[i].Status # "Healthy" \/ Len(scanResults[i].Issues) > 0}

\* The k-th smallest position of the set.
KthOf(S, k) == CHOOSE i \in S : Cardinality({j \in S : j < i}) = k - 1

C21_RetryFromErrorScreen ==
    /\ (Screen = "Error" /\ mLastKey = "r") => mCmds # {}
    /\ (Screen = "Error" /\ mLastKey = "q") => mQuit

\* C29: the cursor is never negative, and whenever the namespace list or
\* the pod list is shown and is not empty the cursor is an index of it.
C29_CursorInRange ==
    /\ mCursor >= 0
    /\ (Screen = "ViewNamespaceList" /\ mNamespaces # <<>>)
          => mCursor < Len(mNamespaces)
    /\ (Screen = "ViewPodList" /\ mFilteredPods # <<>>)
          => mCursor < Len(mFilteredPods)

\* The filtered pod list is shown with the cursor on its last line, below
\* the first, after a page down that would have left the list.
C29_Witness ==
    /\ Screen = "ViewPodList"
    /\ mFilter # <<>>
    /\ Len(mFilteredPods) >= 2 /\ Len(mFilteredPods) < Len(mPods)
    /\ mCursor = Len(mFilteredPods) - 1
    /\ mLastKey = "pgdown"

\* The loaded pods whose name, status or node contains the text, whatever the
\* case of the letters; all of them for the empty text.
PodsMatchingFilter ==
    SelectSeq(mPods, LAMBDA item :
        \/ mFilter = <<>>
        \/ \E field \in {item.Name, item.Status, item.Node} :
              Contains(ToLower(field), ToLower(mFilter)))

\* C30: whenever the pod list is shown, the displayed pods are exactly the
\* loaded pods that match the current filter text.
C30_ShownPodsMatchFilter ==
    Screen = "ViewPodList" => mFilteredPods = PodsMatchingFilter

(***************************************************************************)
(* C23: the Status analyzer's rules for a regular container                *)
(***************************************************************************)
\* The Status analyzer has run.
StatusAnalyzerRan == Len(invoked) >= 1 /\ invoked[1].Name = "status"

\* The issues the Status analyzer returned for the regular container name.
StatusIssuesOf(name) ==
    SelectSeq(invoked[1].Issues,
              LAMBDA i : /\ "container" \in DOMAIN i.Details
                         /\ i.Details.container = name
                         /\ "type" \notin DOMAIN i.Details)

TitleStarts(i, text) == i.Title[1] = text

TitleHas(i, text) == Len(i.Title) >= 3 /\ i.Title[3] = text

IsWaitingIssue(i) ==
    \/ TitleStarts(i, "Cannot pull image for ")
    \/ TitleStarts(i, "Config error for ")
    \/ TitleStarts(i, "Cannot create container ")
    \/ TitleHas(i, " in CrashLoopBackOff")
    \/ TitleHas(i, " waiting: ")

IsLastTerminationIssue(i) ==
    TitleHas(i, " was OOMKilled") \/ TitleHas(i, " exited with code ")

IsTerminatedIssue(i) == TitleHas(i, " terminated with exit code ")

IsRestartIssue(i) == TitleStarts(i, "High restart count for ")

\* How many issues of the sequence satisfy the test, and with which
\* severities and categories.
IssuesThat(issues, Test(_)) == SelectSeq(issues, Test)

Only(issues, severity, category) ==
    /\ Len(issues) = 1
    /\ issues[1].Severity = severity
    /\ issues[1].Category = category

ContainerRulesHold(cs) ==
    LET mine == StatusIssuesOf(cs.Name)
        w == IssuesThat(mine, IsWaitingIssue)
        l == IssuesThat(mine, IsLastTerminationIssue)
        t == IssuesThat(mine, IsTerminatedIssue)
        r == IssuesThat(mine, IsRestartIssue)
        reason == IF cs.State.Kind = "waiting" THEN cs.State.Reason ELSE ""
        last == cs.LastTerminationState
    IN  /\ IF reason \notin {"", "ContainerCreating", "PodInitializing"}
           THEN Only(w, IF reason \in CriticalWaitingReasons
                        THEN "critical" ELSE "warning", "container")
           ELSE w = <<>>
        /\ IF last.Kind = "terminated" /\ last.Reason = "OOMKilled"
           THEN Only(l, "critical", "resources")
           ELSE IF last.Kind = "terminated" /\ last.ExitCode # 0
           THEN Only(l, "warning", "container")
           ELSE l = <<>>
        /\ IF cs.State.Kind = "terminated" /\ cs.State.ExitCode # 0
           THEN Only(t, "critical", "container")
           ELSE t = <<>>
        /\ IF cs.RestartCount > 5
           THEN Only(r, "warning", "container")
           ELSE r = <<>>
        /\ Len(mine) = Len(w) + Len(l) + Len(t) + Len(r)

\* C23: for every regular container status the Status analyzer returns one
\* waiting issue exactly when the waiting reason is non-empty and not
\* ContainerCreating or PodInitializing (critical for the five named
\* reasons, else warning), one last-termination issue exactly when the last
\* termination is OOMKilled (critical, resources) or else has a non-zero
\* exit code (warning), one critical issue exactly when the current state is
\* terminated with a non-zero exit code, one warning exactly when the
\* restart count exceeds 5, and nothing else for the container.
C23_ContainerRulesIndependent ==
    StatusAnalyzerRan =>
        \A k \in DOMAIN world.Pod.ContainerStatuses :
            ContainerRulesHold(world.Pod.ContainerStatuses[k])

\* A crash-looping container, OOM-killed before, restarted 6 times: three
\* rules fire at once, next to a sidecar that cannot pull its image.
C23_Witness ==
    /\ StatusAnalyzerRan
    /\ Len(world.Pod.ContainerStatuses) = 2
    /\ world.Pod.ContainerStatuses[1].State = WaitingState("CrashLoopBackOff")
    /\ world.Pod.ContainerStatuses[1].LastTerminationState.Reason = "OOMKilled"
    /\ Len(StatusIssuesOf("app")) = 3
    /\ Len(StatusIssuesOf("sidecar")) = 1

(***************************************************************************)
(* C27: the status label and the Status analyzer's critical issues         *)
(***************************************************************************)
\* The critical issue of the Status analyzer for the condition a status
\* label names.
IssueForLabel(label, i) ==
    /\ i.Severity = "critical"
    /\ CASE label = "CrashLoopBackOff" -> TitleHas(i, " in CrashLoopBackOff")
         [] label = "ImagePullBackOff" -> TitleStarts(i, "Cannot pull image for ")
         [] label = "CreateContainerError" ->
                TitleStarts(i, "Cannot create container ")
         [] label = "CreateContainerConfigError" ->
                TitleStarts(i, "Config error for ")
         [] label = "OOMKilled" -> TitleHas(i, " was OOMKilled")
         [] label = "Evicted" -> i.Title = <<"Pod was evicted">>
         [] OTHER -> FALSE

FailureLabels ==
    {"CrashLoopBackOff", "ImagePullBackOff", "CreateContainerError",
     "CreateContainerConfigError", "OOMKilled", "Evicted"}

\* C27: in every Diagnosis that Diagnose returns, a status label of
\* CrashLoopBackOff, ImagePullBackOff, CreateContainerError,
\* CreateContainerConfigError, OOMKilled or Evicted comes with a critical
\* issue of the Status analyzer for the same condition in the issue list, so
\* the Diagnosis is not healthy, whichever Signal Source calls failed.
C27_FailureLabelHasCriticalIssue ==
    (dpc = "done" /\ diagnosis.Status \in FailureLabels) =>
        /\ \E k \in DOMAIN invoked[1].Issues :
              /\ IssueForLabel(diagnosis.Status, invoked[1].Issues[k])
              /\ \E j \in DOMAIN diagnosis.Issues :
                    diagnosis.Issues[j] = invoked[1].Issues[k]
        /\ ~IsHealthy(diagnosis)

\* An OOM-killed, running container diagnosed while the event and node
\* fetches of every component fail.
C27_Witness ==
    /\ dpc = "done"
    /\ diagnosis.Status = "OOMKilled"
    /\ world.Pod.ContainerStatuses[1].State = RunningState
    /\ \A k \in DOMAIN calls : calls[k].Op # "GetPod" => ~calls[k].Ok
    /\ Len(calls) >= 5

(***************************************************************************)
(* C24: the Event analyzer                                                 *)
(***************************************************************************)
\* The Event analyzer has run.
EventAnalyzerRan == Len(invoked) >= 2 /\ invoked[2].Name = "events"

\* The Warning events that are not skipped, in event order.
ActionableEvents ==
    SelectSeq(world.Events,
              LAMBDA ev : /\ ev.Type = "Warning"
                          /\ ev.Reason \notin {"Scheduled", "Pulled",
                                               "Created", "Started"})

\* The category of the claim's table, worked out by hand for each reason.
CategoryByReason(reason) ==
    CASE reason = "FailedScheduling" -> "scheduling"
      [] reason \in {"FailedMount", "FailedAttachVolume"} -> "storage"
      [] reason \in {"Unhealthy", "ProbeWarning"} -> "health"
      [] reason = "ErrImagePull" -> "container"
      [] reason = "OOMKilling" -> "resources"
      [] OTHER -> "events"

SeverityByReason(reason) ==
    IF reason \in {"Failed", "FailedScheduling", "FailedMount",
                   "FailedAttachVolume", "BackOff"}
    THEN "critical" ELSE "warning"

\* C24: the Event analyzer returns, in event order, one issue for each
\* Warning event whose reason is not Scheduled, Pulled, Created or Started
\* and none for any other event; the issue is critical exactly for the
\* reasons Failed, FailedScheduling, FailedMount, FailedAttachVolume and
\* BackOff, and its category is the first match of the category table; when
\* the event fetch fails the analyzer fails and returns no issue.
C24_OneIssuePerActionableWarning ==
    EventAnalyzerRan =>
        LET res == invoked[2]
            fetches == SelectSeq(calls, LAMBDA c : c.By = "events")
        IN  /\ Len(fetches) = 1 /\ fetches[1].Op = "GetPodEvents"
            /\ res.Err = ~fetches[1].Ok
            /\ res.Err => res.Issues = <<>>
            /\ ~res.Err =>
                 /\ Len(res.Issues) = Len(ActionableEvents)
                 /\ \A k \in DOMAIN res.Issues :
                      /\ res.Issues[k].Title = <<ActionableEvents[k].Reason>>
                      /\ res.Issues[k].Severity =
                            SeverityByReason(ActionableEvents[k].Reason)
                      /\ res.Issues[k].Category =
                            CategoryByReason(ActionableEvents[k].Reason)

\* A skipped Warning event followed by a critical one: one issue.
C24_Witness ==
    /\ EventAnalyzerRan /\ Len(invoked) = 2
    /\ ~invoked[2].Err
    /\ Len(world.Events) = 2
    /\ world.Events[1].Type = "Warning" /\ world.Events[1].Reason = "Pulled"
    /\ world.Events[2].Type = "Warning" /\ world.Events[2].Reason = "FailedMount"
    /\ Len(invoked[2].Issues) = 1
    /\ invoked[2].Issues[1].Category = "storage"

(***************************************************************************)
(* C25: the BestEffort warning of the Resource analyzer                    *)
(***************************************************************************)
\* The Resource analyzer has run.
ResourceAnalyzerRan == Len(invoked) >= 5 /\ invoked[5].Name = "resources"

\* The issues the Resource analyzer returned for the container name.
ResourceIssuesOf(name) ==
    SelectSeq(invoked[5].Issues, LAMBDA i : i.Details.container = name)

\* The issues of the container with the title prefix.
Titled(name, prefix) ==
    SelectSeq(ResourceIssuesOf(name), LAMBDA i : i.Title[1] = prefix)

Entry(list, name) == IF name \in DOMAIN list THEN list[name] ELSE 0

\* Guaranteed: CPU and memory limits both non-zero and each equal to its
\* request.
Guaranteed(c) ==
    /\ Entry(c.Resources.Limits, "cpu") # 0
    /\ Entry(c.Resources.Limits, "memory") # 0
    /\ Entry(c.Resources.Limits, "cpu") = Entry(c.Resources.Requests, "cpu")
    /\ Entry(c.Resources.Limits, "memory") = Entry(c.Resources.Requests, "memory")

NoEntries(c) ==
    DOMAIN c.Resources.Limits = {} /\ DOMAIN c.Resources.Requests = {}

AllContainers == world.Pod.Containers \o world.Pod.InitContainers

BestEffortRulesHold(c) ==
    LET bestEffort == Titled(c.Name, "BestEffort QoS for ") IN
    /\ Len(bestEffort) <= 1
    /\ bestEffort # <<>> <=> (~Guaranteed(c) /\ NoEntries(c))
    /\ bestEffort # <<>> <=> NoEntries(c)
    /\ bestEffort # <<>> =>
          /\ bestEffort[1].Severity = "warning"
          /\ Len(Titled(c.Name, "No resource limits for ")) = 1
          /\ Titled(c.Name, "No resource limits for ")[1].Severity = "warning"
          /\ Len(Titled(c.Name, "No resource requests for ")) = 1
          /\ Titled(c.Name, "No resource requests for ")[1].Severity = "info"
    /\ (/\ Guaranteed(c)
        /\ Entry(c.Resources.Limits, "memory") >= 64
        /\ Entry(c.Resources.Limits, "cpu") >= 50)
          => ResourceIssuesOf(c.Name) = <<>>

ProbeAnalyzerRan == Len(invoked) >= 6 /\ invoked[6].Name = "probes"

\* Whether the Probe analyzer returned, for the container name, an issue
\* with the title and the severity.
ProbeIssue(title, severity) ==
    \E k \in DOMAIN invoked[6].Issues :
        /\ invoked[6].Issues[k].Title = title
        /\ invoked[6].Issues[k].Severity = severity

AggressiveLiveness(c) ==
    ProbeIssue(<<"Aggressive liveness probe for ", c.Name>>, "warning")

LowFailureThreshold(c) ==
    ProbeIssue(<<"Low liveness failureThreshold for ", c.Name>>, "warning")

ShortTimeout(c) ==
    ProbeIssue(<<"Short liveness timeout for ", c.Name>>, "info")

ShortStartupWindow(c) ==
    ProbeIssue(<<"Short startup window for ", c.Name>>, "warning")

Exit137(cs) ==
    ProbeIssue(<<"Container ", cs.Name, " killed (exit 137)">>, "warning")

LastExitCode137(cs) ==
    cs.LastTerminationState.Kind = "terminated"
    /\ cs.LastTerminationState.ExitCode = 137

\* C26 as stated: the warnings are returned exactly when periodSeconds < 5,
\* failureThreshold < 3, timeoutSeconds < 2 and failureThreshold x
\* periodSeconds < 30, for every integer value, and the exit-137 warning for
\* every container last terminated with exit code 137.
C26_Original_EveryIntegerValue ==
    ProbeAnalyzerRan =>
        /\ \A k \in DOMAIN world.Pod.Containers :
            LET c == world.Pod.Containers[k] IN
            /\ c.LivenessProbe.Set =>
                /\ AggressiveLiveness(c) <=> c.LivenessProbe.PeriodSeconds < 5
                /\ LowFailureThreshold(c) <=> c.LivenessProbe.FailureThreshold < 3
                /\ ShortTimeout(c) <=> c.LivenessProbe.TimeoutSeconds < 2
            /\ c.StartupProbe.Set =>
                (ShortStartupWindow(c) <=>
                    c.StartupProbe.FailureThreshold
                        * c.StartupProbe.PeriodSeconds < 30)
        /\ \A k \in DOMAIN world.Pod.ContainerStatuses :
            LastExitCode137(world.Pod.ContainerStatuses[k])
                => Exit137(world.Pod.ContainerStatuses[k])

\* The value lies in lo..hi.
Within(value, lo, hi) == lo <= value /\ value <= hi

\* C26: for a configured liveness probe the Probe analyzer returns the
\* aggressive-liveness warning exactly when periodSeconds is 1 to 4, the
\* low-failureThreshold warning exactly when failureThreshold is 1 or 2 and
\* the short-timeout info exactly when timeoutSeconds is 1; for a configured
\* startup probe the short-startup-window warning exactly when
\* failureThreshold x periodSeconds is 1 to 29; and the exit-137 warning
\* exactly for the containers whose last termination exit code is 137 and
\* whose restart count is greater than 0.
C26_PositiveValuesBelowThresholds ==
    ProbeAnalyzerRan =>
        /\ \A k \in DOMAIN world.Pod.Containers :
            LET c == world.Pod.Containers[k] IN
            /\ c.LivenessProbe.Set =>
                /\ AggressiveLiveness(c)
                      <=> Within(c.LivenessProbe.PeriodSeconds, 1, 4)
                /\ LowFailureThreshold(c)
                      <=> Within(c.LivenessProbe.FailureThreshold, 1, 2)
                /\ ShortTimeout(c)
                      <=> Within(c.LivenessProbe.TimeoutSeconds, 1, 1)
            /\ c.StartupProbe.Set =>
                (ShortStartupWindow(c) <=>
                    Within(c.StartupProbe.FailureThreshold
                               * c.StartupProbe.PeriodSeconds, 1, 29))
        /\ \A k \in DOMAIN world.Pod.ContainerStatuses :
            LET cs == world.Pod.ContainerStatuses[k] IN
            Exit137(cs) <=> (LastExitCode137(cs) /\ cs.RestartCount > 0)

\* A liveness probe with periodSeconds 0 and failureThreshold 2: the period
\* is not reported, the threshold is.
C26_Witness ==
    /\ ProbeAnalyzerRan
    /\ world.Pod.Containers[1].LivenessProbe.PeriodSeconds = 0
    /\ world.Pod.Containers[1].LivenessProbe.FailureThreshold = 2
    /\ ~AggressiveLiveness(world.Pod.Containers[1])
    /\ LowFailureThreshold(world.Pod.Containers[1])

(***************************************************************************)
(* C28: the issues and the events and node fields of a Diagnosis           *)
(***************************************************************************)
\* The Diagnosis holds a Warning event with the reason.
WarningEventInDiagnosis(reason) ==
    \E k \in DOMAIN diagnosis.Events :
        /\ diagnosis.Events[k].Type = "Warning"
        /\ diagnosis.Events[k].Reason = reason

\* An issue of the Probe analyzer's check of the events.
IsProbeEventIssue(i) ==
    i.Category = "probes" /\ Len(i.Title) = 2 /\ i.Title[2] = " probe failed"

\* C28: in every Diagnosis that Diagnose returns, each issue of the Event
\* analyzer and each issue of the Probe analyzer's event check corresponds
\* to a Warning event in the events field, and issues of category node are
\* present only when the node field is populated.
C28_IssuesMatchSnapshot ==
    dpc = "done" =>
        /\ ~invoked[2].Err =>
              \A k \in DOMAIN invoked[2].Issues :
                  WarningEventInDiagnosis(invoked[2].Issues[k].Title[1])
        /\ \A k \in DOMAIN diagnosis.Issues :
              /\ IsProbeEventIssue(diagnosis.Issues[k])
                    => WarningEventInDiagnosis("Unhealthy")
              /\ diagnosis.Issues[k].Category = "node"
                    => diagnosis.Node # <<>>

====
